---- MODULE Spec2Model ----
(***************************************************************************)
(* Model of the morphoBPE trainers.                                        *)
(*                                                                         *)
(*   src/bpe.cpp          weighted trainer (weight = tf), reports best_freq *)
(*   src/bpes/bpe.cpp     unweighted trainer, oracle = rescan of originals  *)
(*   src/bpes/bpe_sa.cpp  unweighted trainer, oracle = suffix automaton     *)
(*                                                                         *)
(* One run of one trainer is one behaviour.  The variable variant says     *)
(* which program runs; pc is the position of main().  The input file is    *)
(* supplied line by line by the environment (ReadLine) until EndOfFile.    *)
(* A word or a token string is a sequence of bytes, each byte written as a *)
(* short string: "a", "b", "#" are ASCII bytes, "C3" "A9" are the two bytes *)
(* of the code point U+00E9.                                               *)
(***************************************************************************)
EXTENDS Integers, Sequences, FiniteSets, TLC

(* ---------------------------- bounds ----------------------------------- *)
\* total number of characters over all accepted words of the input file
MaxChars == 4
\* the largest tf value of an input record (records carry tf 1 or MaxWeight)
MaxWeight == 2

\* characters that input words are made of
Alphabet == {"a", "b"}
\* the letters of the words low, lower, newest, widest
ScenarioAlphabet == {"l", "o", "w", "e", "r", "n", "s", "t", "i", "d"}
\* the lead byte and the continuation byte of the UTF-8 form of U+00E9, and
\* that code point as a wide character
LeadByte == "C3"
ContByte == "A9"
WideE9 == "U+00E9"
\* the separator appended to every original word in the oracle's corpus
Separator == "#"
\* tf values and df values that input records carry
Weights == {1, MaxWeight}
Dfs == {1}
\* the three programs
Variants == {"tf", "rescan", "sa"}

VARIABLES
    variant,               \* which program runs
    pc,                    \* position in main()
    words,                 \* vector<WordEntry> words
    id_to_token,           \* vector<string> id_to_token (index id+1)
    token_to_id,           \* unordered_map<string,int> token_to_id
    pair_to_word_indices,  \* pair -> set of word indices (0-based)
    merges,                \* vector<MergeRule> merges
    best_pair, best_freq,  \* locals of the merge loop
    corpus,                \* string corpus (bpe_sa.cpp)
    st, sz, last,          \* the suffix automaton under construction
    cpos,                  \* number of corpus characters already extended
    oob,                   \* an out-of-range element access has happened
    final_frequencies,     \* unordered_map<int,int> final_frequencies
    line,                  \* string line: the line getline read last
    exit_status,           \* the status the process ended with (-1: running)
    argc,                  \* int argc
    is_open,               \* is_open() of infile, tokens_file, merges_file
    lines,                 \* vector<string> lines (tf_df.cpp)
    num_threads,           \* unsigned int num_threads (tf_df.cpp)
    local_maps,            \* vector<FrequencyMap> local_maps (index t+1)
    threads,               \* vector<thread> threads with each worker's locals
    global_map,            \* FrequencyMap global_map (tf_df.cpp)
    nodes,                 \* the Node objects allocated with new (bpe2.cpp)
    head, tail,            \* Node* head, Node* tail (0: nullptr)
    pairMap,               \* PairMap pairMap (bpe2.cpp)
    bestPair, bestFreq,    \* locals of the merge loop of bpe2.cpp
    thread_outputs,        \* vector<vector<string>> thread_outputs (clean_text.cpp)
    outfile,               \* the lines written to outfile (clean_text.cpp)
    mode,                  \* argv[2] (clean_text.cpp)
    locale                 \* the global locale iswalnum consults (clean_text.cpp)

\* the locales the environment can name: the classic "C" locale, which
\* every program starts in, a UTF-8 locale such as C.UTF-8 or en_US.UTF-8,
\* and "none" for a locale the system does not have
EnvLocales == {"C", "UTF-8", "none"}

vars == <<variant, pc, words, id_to_token, token_to_id, pair_to_word_indices,
          merges, best_pair, best_freq, corpus, st, sz, last, cpos, oob,
          final_frequencies, line, exit_status, argc, is_open,
          lines, num_threads, local_maps, threads, global_map,
          nodes, head, tail, pairMap, bestPair, bestFreq, thread_outputs, outfile,
          mode, locale>>

\* the state of tf_df.cpp, which the trainers leave alone
tfdf_vars == <<lines, num_threads, local_maps, threads, global_map>>

\* the state of bpe2.cpp and of clean_text.cpp, which the other programs
\* leave alone
list_vars == <<nodes, head, tail, pairMap, bestPair, bestFreq>>
clean_vars == <<thread_outputs, outfile, mode, locale>>

\* the state of the trainers, which tf_df.cpp leaves alone
trainer_vars == <<words, id_to_token, token_to_id, pair_to_word_indices,
                  merges, best_pair, best_freq, corpus, st, sz, last, cpos, oob,
                  final_frequencies, exit_status, argc, is_open>>

(* ------------------------- generic helpers ----------------------------- *)
\* the empty map
EmptyMap == [x \in {} |-> 0]

\* m with key k set to v (operator[] assignment / insert on a map)
MapPut(m, k, v) == [x \in (DOMAIN m) \cup {k} |-> IF x = k THEN v ELSE m[x]]

\* m without key k (erase)
MapErase(m, k) == [x \in (DOMAIN m) \ {k} |-> m[x]]

RECURSIVE SumOver(_, _)
\* sum of f[x] for x in S
SumOver(S, f) ==
    IF S = {} THEN 0
    ELSE LET x == CHOOSE y \in S : TRUE IN f[x] + SumOver(S \ {x}, f)

\* all sequences over S of length 1..n
SeqsUpTo(S, n) == UNION {[1..k -> S] : k \in 1..n}

(* ------------------- symbol table (get_token_id) ----------------------- *)
\* string of token id (id_to_token[id], 0-based id)
TokenStr(toks, id) == toks[id + 1]

\* get_token_id without the lookup "token_to_id.find(token)": every call
\* allocates a new id
get_token_id_alloc(ids, toks, token) ==
    [id |-> Len(toks), ids |-> MapPut(ids, token, Len(toks)),
     toks |-> Append(toks, token)]

\* get_token_id(token) on the tables (ids, toks): the id returned and the
\* tables afterwards; an unknown token gets the next dense id
get_token_id(ids, toks, token) ==
    IF token \in DOMAIN ids
    THEN [id |-> ids[token], ids |-> ids, toks |-> toks]
    ELSE [id |-> Len(toks), ids |-> MapPut(ids, token, Len(toks)),
          toks |-> Append(toks, token)]

(* ------------------------ code point split ----------------------------- *)
\* the bytes that are a code point by themselves (ASCII)
Ascii == Alphabet \cup ScenarioAlphabet \cup {Separator} \cup {" ", "_", "1"}

RECURSIVE DecodeFrom(_, _, _)
\* the UTF-8 decoder from byte i on, with the code points decoded so far in
\* acc: a one-byte code point, or a lead byte with its continuation byte.
\* A lead byte that ends the string is an incomplete sequence: the
\* conversion stops there and returns what it has, without an error.  A
\* lead byte followed by another byte, or a continuation byte without its
\* lead byte, is an error (ok = FALSE)
DecodeFrom(word_str, i, acc) ==
    IF i > Len(word_str) THEN [ok |-> TRUE, wide |-> acc]
    ELSE IF word_str[i] \in Ascii
         THEN DecodeFrom(word_str, i + 1, Append(acc, word_str[i]))
         ELSE IF word_str[i] = LeadByte /\ i = Len(word_str)
              THEN [ok |-> TRUE, wide |-> acc]
              ELSE IF word_str[i] = LeadByte /\ word_str[i + 1] = ContByte
                   THEN DecodeFrom(word_str, i + 2, Append(acc, WideE9))
                   ELSE [ok |-> FALSE, wide |-> acc]

\* converter.from_bytes(word_str): the wide string, one element per code
\* point (wide), or the std::range_error it throws (ok = FALSE)
FromBytes(word_str) == DecodeFrom(word_str, 1, <<>>)

\* converter.to_bytes(wc): the UTF-8 string of one code point
ToBytes(wc) == IF wc = WideE9 THEN <<LeadByte, ContByte>> ELSE <<wc>>

RECURSIVE TokenizeFrom(_, _, _, _, _)
\* the loop "for (wc : wide_word) tokens.push_back(get_token_id(to_bytes(wc)))"
\* from position i on, with the tokens collected so far in acc
TokenizeFrom(wide_word, i, ids, toks, acc) ==
    IF i > Len(wide_word) THEN [tokens |-> acc, ids |-> ids, toks |-> toks]
    ELSE LET r == get_token_id(ids, toks, ToBytes(wide_word[i]))
         IN TokenizeFrom(wide_word, i + 1, r.ids, r.toks, Append(acc, r.id))

(* --------------------- per-word token operations ----------------------- *)
\* compute_pairs(tokens): the set of adjacent pairs of tokens
compute_pairs(tokens) ==
    {<<tokens[i], tokens[i + 1]>> : i \in 1..(Len(tokens) - 1)}

RECURSIVE CountDisjointFrom(_, _, _)
\* occurrences of p from position i on, an occurrence consuming both tokens
CountDisjointFrom(tokens, p, i) ==
    IF i + 1 > Len(tokens) THEN 0
    ELSE IF tokens[i] = p[1] /\ tokens[i + 1] = p[2]
         THEN 1 + CountDisjointFrom(tokens, p, i + 2)
         ELSE CountDisjointFrom(tokens, p, i + 1)

\* count_occurrences_in_word skipping past a match ("i += 2" on a hit):
\* non-overlapping occurrences only
count_occurrences_disjoint(tokens, p) == CountDisjointFrom(tokens, p, 1)

\* count_occurrences_in_word(tokens, p): positions i with tokens[i], tokens[i+1] = p
count_occurrences_in_word(tokens, p) ==
    Cardinality({i \in 1..(Len(tokens) - 1) :
                    tokens[i] = p[1] /\ tokens[i + 1] = p[2]})

RECURSIVE MergeFrom(_, _, _, _, _)
\* the while loop of merge_pair_in_word from 1-based position i on
MergeFrom(tokens, target_pair, new_token_id, i, new_tokens) ==
    IF i > Len(tokens) THEN new_tokens
    ELSE IF i + 1 <= Len(tokens) /\ tokens[i] = target_pair[1]
            /\ tokens[i + 1] = target_pair[2]
         THEN MergeFrom(tokens, target_pair, new_token_id, i + 2,
                        Append(new_tokens, new_token_id))
         ELSE MergeFrom(tokens, target_pair, new_token_id, i + 1,
                        Append(new_tokens, tokens[i]))

\* merge_pair_in_word returning its argument instead of new_tokens
merge_pair_in_word_unmerged(tokens, target_pair, new_token_id) == tokens

RECURSIVE MergeStepOneFrom(_, _, _, _, _)
\* the merge loop advancing by one after a replacement ("i += 1")
MergeStepOneFrom(tokens, target_pair, new_token_id, i, new_tokens) ==
    IF i > Len(tokens) THEN new_tokens
    ELSE IF i + 1 <= Len(tokens) /\ tokens[i] = target_pair[1]
            /\ tokens[i + 1] = target_pair[2]
         THEN MergeStepOneFrom(tokens, target_pair, new_token_id, i + 1,
                               Append(new_tokens, new_token_id))
         ELSE MergeStepOneFrom(tokens, target_pair, new_token_id, i + 1,
                               Append(new_tokens, tokens[i]))

\* merge_pair_in_word that does not consume the second token of a match
merge_pair_in_word_step1(tokens, target_pair, new_token_id) ==
    MergeStepOneFrom(tokens, target_pair, new_token_id, 1, <<>>)

RECURSIVE MergeBackFrom(_, _, _, _, _)
\* the merge loop scanning from the last token towards the first
MergeBackFrom(tokens, target_pair, new_token_id, i, new_tokens) ==
    IF i < 1 THEN new_tokens
    ELSE IF i - 1 >= 1 /\ tokens[i - 1] = target_pair[1]
            /\ tokens[i] = target_pair[2]
         THEN MergeBackFrom(tokens, target_pair, new_token_id, i - 2,
                            <<new_token_id>> \o new_tokens)
         ELSE MergeBackFrom(tokens, target_pair, new_token_id, i - 1,
                            <<tokens[i]>> \o new_tokens)

\* merge_pair_in_word that scans right to left
merge_pair_in_word_backward(tokens, target_pair, new_token_id) ==
    MergeBackFrom(tokens, target_pair, new_token_id, Len(tokens), <<>>)

\* merge_pair_in_word(tokens, target_pair, new_token_id)
merge_pair_in_word(tokens, target_pair, new_token_id) ==
    MergeFrom(tokens, target_pair, new_token_id, 1, <<>>)

(* ------------------ naive substring count (oracle) --------------------- *)
\* count_occurrences(str, sub): start positions of sub in str, overlaps counted
count_occurrences(str, sub) ==
    IF sub = <<>> THEN 0
    ELSE Cardinality({i \in 1..(Len(str) - Len(sub) + 1) :
                         SubSeq(str, i, i + Len(sub) - 1) = sub})

(* ------------------------ suffix automaton ----------------------------- *)
\* a value-initialised SAState, as vector::resize creates it
DefaultState == [len |-> 0, link |-> 0, next |-> EmptyMap, occ |-> 0]

RECURSIVE AddTransitions(_, _, _, _)
\* extend: "for (; p != -1 && !st[p].next.count(c); p = st[p].link) st[p].next[c] = cur"
\* yields the states and the p the loop stops at
AddTransitions(s, p, c, cur) ==
    IF p # -1 /\ c \notin DOMAIN s[p].next
    THEN AddTransitions([s EXCEPT ![p].next = MapPut(@, c, cur)], s[p].link, c, cur)
    ELSE [st |-> s, p |-> p]

RECURSIVE Redirect(_, _, _, _, _)
\* extend: "for (; p != -1 && st[p].next[c] == q; p = st[p].link) st[p].next[c] = clone"
\* (operator[] inserts c -> 0 where the transition is missing)
Redirect(s, p, c, q, clone) ==
    IF p = -1 THEN s
    ELSE LET s1 == IF c \in DOMAIN s[p].next THEN s
                   ELSE [s EXCEPT ![p].next = MapPut(@, c, 0)]
         IN IF s1[p].next[c] = q
            THEN Redirect([s1 EXCEPT ![p].next = MapPut(@, c, clone)],
                          s1[p].link, c, q, clone)
            ELSE s1

\* extend(c, sz, last): the states, the new size and the new last after the
\* character c is appended
extend(s, c, size, lst) ==
    LET cur == size
        s0  == [s EXCEPT ![cur].len = s[lst].len + 1, ![cur].occ = 1]
        r   == AddTransitions(s0, lst, c, cur)
        p   == r.p
        q   == r.st[p].next[c]
        clone == size + 1
    IN IF p = -1
       THEN [st |-> [r.st EXCEPT ![cur].link = 0], sz |-> size + 1, last |-> cur]
       ELSE IF r.st[p].len + 1 = r.st[q].len
            THEN [st |-> [r.st EXCEPT ![cur].link = q], sz |-> size + 1, last |-> cur]
            ELSE LET s2 == [r.st EXCEPT ![clone].len = r.st[p].len + 1,
                                        ![clone].next = r.st[q].next,
                                        ![clone].link = r.st[q].link,
                                        ![clone].occ = 0]
                     s3 == Redirect(s2, p, c, q, clone)
                 IN [st |-> [s3 EXCEPT ![q].link = clone, ![cur].link = clone],
                     sz |-> size + 2, last |-> cur]

RECURSIVE SortByLenDesc(_, _)
\* the sequences std::sort can leave of the state indices S with the
\* comparator "st[a].len > st[b].len": decreasing len, and the states of
\* equal len in any order (the sort is not stable)
SortByLenDesc(s, S) ==
    IF S = {} THEN {<<>>}
    ELSE LET top == {i \in S : \A j \in S : s[j].len <= s[i].len}
         IN UNION {{<<m>> \o rest : rest \in SortByLenDesc(s, S \ {m})} : m \in top}

\* the values the vector order can have after the sort
order(s, size) == SortByLenDesc(s, 0..(size - 1))

\* the states in the order the propagation loop visits them: the loop
\* "for (i = 0; i < sz; i++)" reads st[i], not st[order[i]]
PropagationOrder(s, size) == [i \in 1..size |-> i - 1]

RECURSIVE PropagateFrom(_, _, _)
\* "if (st[i].link != -1) st[st[i].link].occ += st[i].occ" for the states
\* visit[k], visit[k+1], ...
PropagateFrom(s, visit, k) ==
    IF k > Len(visit) THEN s
    ELSE LET i == visit[k]
         IN IF s[i].link # -1
            THEN PropagateFrom([s EXCEPT ![s[i].link].occ = @ + s[i].occ], visit, k + 1)
            ELSE PropagateFrom(s, visit, k + 1)

\* the constructor after the extend loop: st.resize(sz), then the propagation
Propagate(s, size) ==
    LET shrunk == [i \in 0..(size - 1) |-> IF i \in DOMAIN s THEN s[i] ELSE DefaultState]
    IN PropagateFrom(shrunk, PropagationOrder(shrunk, size), 1)

RECURSIVE WalkFrom(_, _, _, _)
\* countOccurrences: the walk over pattern from state cur, position k
WalkFrom(s, pattern, k, cur) ==
    IF k > Len(pattern) THEN s[cur].occ
    ELSE IF pattern[k] \notin DOMAIN s[cur].next THEN 0
         ELSE WalkFrom(s, pattern, k + 1, s[cur].next[pattern[k]])

\* SuffixAutomaton::countOccurrences(pattern)
countOccurrences(s, pattern) == WalkFrom(s, pattern, 1, 0)

(* ------------------------- merge loop helpers -------------------------- *)
\* Weight with the word's tf left out ("freq += count" for "count * tf")
Weight_Unit(w) == 1

\* the weight of a word: its tf in the weighted trainer, 1 where WordEntry
\* has no tf field
Weight(w) == IF "tf" \in DOMAIN w THEN w.tf ELSE 1

\* PairFreq counting every registered word once instead of its occurrences
PairFreq_Presence(ws, index, p) ==
    SumOver(index[p], [idx \in index[p] |-> Weight(ws[idx + 1])])

\* the frequency the selection loop computes for key p: over the word
\* indices registered under p, occurrences in the word's tokens (times tf)
PairFreq(ws, index, p) ==
    SumOver(index[p],
            [idx \in index[p] |->
                count_occurrences_in_word(ws[idx + 1].tokens, p) * Weight(ws[idx + 1])])

\* best_freq after the scan over all keys (starts at 0, replaced on freq > best_freq)
BestFreq(ws, index) ==
    LET fs == {PairFreq(ws, index, p) : p \in DOMAIN index} \cup {0}
    IN CHOOSE f \in fs : \A g \in fs : g <= f

\* BestPairs with the comparison made against the floor instead of the
\* running maximum: any key that reaches the floor can end as best_pair
BestPairs_FloorOnly(ws, index) ==
    IF BestFreq(ws, index) = 0 THEN {<<-1, -1>>}
    ELSE {p \in DOMAIN index : PairFreq(ws, index, p) >= 2}
           \cup {p \in DOMAIN index : PairFreq(ws, index, p) = BestFreq(ws, index)}

\* the keys the scan can end with as best_pair: the key met first among
\* those of maximal frequency, in the hash map's iteration order
BestPairs(ws, index) ==
    IF BestFreq(ws, index) = 0 THEN {<<-1, -1>>}
    ELSE {p \in DOMAIN index : PairFreq(ws, index, p) = BestFreq(ws, index)}

\* the minimum-frequency floor of the merge loop
MinFreq == 2

\* the break test off by one: "if (best_freq <= 2) break"
LoopBreaks_Le(freq) == freq <= MinFreq

\* "if (best_freq < 2) break"
LoopBreaks(freq) == freq < MinFreq

\* EraseGone erasing the key of a vanished pair even when other words are
\* still registered under it ("it->second.erase(idx); erase(it)")
RECURSIVE EraseGone_WholeKey(_, _, _)
EraseGone_WholeKey(index, gone, idx) ==
    IF gone = {} THEN index
    ELSE LET p == CHOOSE q \in gone : TRUE
             i1 == IF p \in DOMAIN index THEN MapErase(index, p) ELSE index
         IN EraseGone_WholeKey(i1, gone \ {p}, idx)

\* EraseGone without "if (it->second.empty()) pair_to_word_indices.erase(it)"
RECURSIVE EraseGone_KeepEmpty(_, _, _)
EraseGone_KeepEmpty(index, gone, idx) ==
    IF gone = {} THEN index
    ELSE LET p == CHOOSE q \in gone : TRUE
             i1 == IF p \in DOMAIN index
                   THEN MapPut(index, p, index[p] \ {idx})
                   ELSE index
         IN EraseGone_KeepEmpty(i1, gone \ {p}, idx)

\* the index after "it->second.erase(idx); if empty erase(it)" for every
\* pair of gone (the keys present in the index among them)
RECURSIVE EraseGone(_, _, _)
EraseGone(index, gone, idx) ==
    IF gone = {} THEN index
    ELSE LET p == CHOOSE q \in gone : TRUE
             i1 == IF p \in DOMAIN index
                   THEN IF index[p] \ {idx} = {} THEN MapErase(index, p)
                        ELSE MapPut(index, p, index[p] \ {idx})
                   ELSE index
         IN EraseGone(i1, gone \ {p}, idx)

\* the index after "pair_to_word_indices[p].insert(idx)" for every pair of fresh
RECURSIVE InsertFresh(_, _, _)
InsertFresh(index, fresh, idx) ==
    IF fresh = {} THEN index
    ELSE LET p == CHOOSE q \in fresh : TRUE
             old == IF p \in DOMAIN index THEN index[p] ELSE {}
         IN InsertFresh(MapPut(index, p, old \cup {idx}), fresh \ {p}, idx)

\* UpdateWord without the removal of the vanished pairs' registrations
UpdateWord_KeepGone(ws, index, idx, pair, new_token_id) ==
    LET word        == ws[idx + 1]
        old_pairSet == word.pairSet
        new_tokens  == merge_pair_in_word(word.tokens, pair, new_token_id)
        new_pairSet == compute_pairs(new_tokens)
        i2 == InsertFresh(index, new_pairSet \ old_pairSet, idx)
    IN [words |-> [ws EXCEPT ![idx + 1].tokens = new_tokens,
                             ![idx + 1].pairSet = new_pairSet],
        index |-> i2]

\* the body of "for (int idx : affected_words)": the words and the index
\* after word idx is re-tokenised and its pair-set difference applied
UpdateWord(ws, index, idx, pair, new_token_id) ==
    LET word        == ws[idx + 1]
        old_pairSet == word.pairSet
        new_tokens  == merge_pair_in_word(word.tokens, pair, new_token_id)
        new_pairSet == compute_pairs(new_tokens)
        i1 == EraseGone(index, old_pairSet \ new_pairSet, idx)
        i2 == InsertFresh(i1, new_pairSet \ old_pairSet, idx)
    IN [words |-> [ws EXCEPT ![idx + 1].tokens = new_tokens,
                             ![idx + 1].pairSet = new_pairSet],
        index |-> i2]

RECURSIVE UpdateWords(_, _, _, _, _)
\* the loop over affected_words
UpdateWords(ws, index, affected, pair, new_token_id) ==
    IF affected = {} THEN [words |-> ws, index |-> index]
    ELSE LET idx == CHOOSE i \in affected : TRUE
             r   == UpdateWord(ws, index, idx, pair, new_token_id)
         IN UpdateWords(r.words, r.index, affected \ {idx}, pair, new_token_id)

\* the initial index: every word registered under every pair of its pairSet
InitialIndex(ws) ==
    LET keys == UNION {ws[i].pairSet : i \in 1..Len(ws)}
    IN [p \in keys |-> {i - 1 : i \in {j \in 1..Len(ws) : p \in ws[j].pairSet}}]

RECURSIVE JoinCorpus(_, _)
\* "for (w : words) corpus += w.original + '#'" from word i on
JoinCorpus(ws, i) ==
    IF i > Len(ws) THEN <<>>
    ELSE ws[i].original \o <<Separator>> \o JoinCorpus(ws, i + 1)

\* the rescan oracle: sum over the original words of count_occurrences
RescanCount(ws, str) ==
    SumOver(1..Len(ws), [i \in 1..Len(ws) |-> count_occurrences(ws[i].original, str)])

\* original_freq / frequency stored in the merge rule, per trainer
ReportedFrequency(v, ws, s, str, freq) ==
    CASE v = "tf"     -> freq
      [] v = "rescan" -> RescanCount(ws, str)
      [] v = "sa"     -> countOccurrences(s, str)

\* final_frequencies of the weighted trainer: every token of every word's
\* final tokens counted with the word's tf
FinalByTokens(ws) ==
    LET used == UNION {{ws[i].tokens[k] : k \in 1..Len(ws[i].tokens)} : i \in 1..Len(ws)}
    IN [t \in used |->
          SumOver(1..Len(ws),
                  [i \in 1..Len(ws) |->
                     Cardinality({k \in 1..Len(ws[i].tokens) : ws[i].tokens[k] = t})
                       * ws[i].tf])]

\* final_frequencies of the oracle trainers: every token id whose oracle
\* count is positive, with that count
FinalByOracle(v, ws, s, toks) ==
    LET cnt == [t \in 0..(Len(toks) - 1) |->
                  ReportedFrequency(v, ws, s, TokenStr(toks, t), 0)]
    IN [t \in {u \in 0..(Len(toks) - 1) : cnt[u] > 0} |-> cnt[t]]

(* ------------------------------ input ---------------------------------- *)
\* the numeric fields that can follow the word on a line: tf and df, or
\* fewer (the word alone, the word and its tf)
FullFields == {<<tf, df>> : tf \in Weights, df \in Dfs}
PartialFields == {<<>>, <<MaxWeight>>}

\* words with the separator character, with a two-byte code point, and
\* with bytes that are not UTF-8: a lead byte at the end of the word
\* (truncated), a continuation byte without its lead byte (undecodable)
SeparatorWords == {<<"a", "#">>}
WideWords == {<<"a", LeadByte, ContByte>>}
TruncatedWords == {<<"a", LeadByte>>}
UndecodableWords == {<<"a", ContByte>>}

\* the words a line of the input file can start with
InputWords ==
    SeqsUpTo(Alphabet, MaxChars) \cup SeparatorWords \cup WideWords
      \cup TruncatedWords \cup UndecodableWords

\* the line before the first getline and after the failed one
NoLine == [word |-> <<>>, fields |-> <<>>, empty |-> TRUE]

\* the words of the lines that carry fewer than two numeric fields
PartialWords == {<<"a">>, <<"b", "a">>}

\* the lines of the input file: the empty line, the line of white space
\* only, a word with tf and df, and a word with fewer fields
Lines ==
    {NoLine, [word |-> <<>>, fields |-> <<>>, empty |-> FALSE]}
      \cup [word : InputWords, fields : FullFields, empty : {FALSE}]
      \cup [word : PartialWords, fields : PartialFields, empty : {FALSE}]

\* characters of the words accepted so far (tokens are single characters
\* while the file is being read)
CharsLoaded == SumOver(1..Len(words), [i \in 1..Len(words) |-> Len(words[i].tokens)])

(* ------------------------------ actions -------------------------------- *)
\* the exit statuses of main(), and those of a process killed by SIGABRT
\* (an uncaught exception) or SIGSEGV (an invalid memory access)
EXIT_SUCCESS == 0
EXIT_FAILURE == 1
Aborted == 134
Segfault == 139

Init ==
    /\ variant \in Variants
    /\ pc = "start"
    /\ words = <<>>
    /\ id_to_token = <<>>
    /\ token_to_id = EmptyMap
    /\ pair_to_word_indices = EmptyMap
    /\ merges = <<>>
    /\ best_pair = <<-1, -1>>
    /\ best_freq = 0
    /\ corpus = <<>>
    /\ st = EmptyMap
    /\ sz = 0
    /\ last = 0
    /\ cpos = 0
    /\ oob = FALSE
    /\ final_frequencies = EmptyMap
    /\ line = NoLine
    /\ exit_status = -1
    /\ argc \in 1..2
    /\ is_open = [infile |-> FALSE, tokens_file |-> FALSE, merges_file |-> FALSE]
    /\ lines = <<>>
    /\ num_threads = 0
    /\ local_maps = <<>>
    /\ threads = <<>>
    /\ global_map = EmptyMap
    /\ nodes = <<>>
    /\ head = 0
    /\ tail = 0
    /\ pairMap = EmptyMap
    /\ bestPair = <<-1, -1>>
    /\ bestFreq = 0
    /\ thread_outputs = <<>>
    /\ outfile = <<>>
    /\ mode = ""
    /\ locale = "C"

\* "if (!tokens_file.is_open() && !merges_file.is_open())": only both
\* output files failing counts
OutputsFailed_Both(tokens_open, merges_open) == ~tokens_open /\ ~merges_open

\* "if (!tokens_file.is_open() || !merges_file.is_open())"
OutputsFailed(tokens_open, merges_open) == ~tokens_open \/ ~merges_open

\* the head of main(): the argument count, the input file and the two
\* output files are tested in this order and any failure returns
\* EXIT_FAILURE; infile_ok, tokens_ok and merges_ok say whether the file
\* system lets the file be opened.  The input file is opened only with an
\* argument, the output files only with the input file open.  Before all
\* of this the global locale is set to "en_US.UTF-8": where that locale is
\* not installed (locale_ok false) the constructor throws
\* std::runtime_error, nothing catches it and the process is aborted
Start(locale_ok, infile_ok, tokens_ok, merges_ok) ==
    /\ pc = "start"
    /\ UNCHANGED tfdf_vars
    /\ UNCHANGED <<list_vars, clean_vars>>
    /\ LET infile_open == argc >= 2 /\ infile_ok
           tokens_open == infile_open /\ tokens_ok
           merges_open == infile_open /\ merges_ok
       IN IF ~locale_ok
          THEN pc' = "aborted" /\ exit_status' = Aborted /\ UNCHANGED is_open
          ELSE /\ is_open' = [infile |-> infile_open, tokens_file |-> tokens_open,
                              merges_file |-> merges_open]
               /\ IF argc < 2 \/ ~infile_open \/ OutputsFailed(tokens_open, merges_open)
                  THEN pc' = "failed" /\ exit_status' = EXIT_FAILURE
                  ELSE pc' = "read" /\ UNCHANGED exit_status
    /\ UNCHANGED <<variant, words, id_to_token, token_to_id, pair_to_word_indices,
                   merges, best_pair, best_freq, corpus, st, sz, last, cpos, oob,
                   final_frequencies, line, argc>>

\* the WordEntry pushed for an accepted line, without tokens and pairSet
NewEntry(v, ln, tokens) ==
    IF v = "tf"
    THEN [tokens |-> tokens, pairSet |-> compute_pairs(tokens),
          tf |-> ln.fields[1], df |-> ln.fields[2]]
    ELSE [original |-> ln.word, tokens |-> tokens, pairSet |-> compute_pairs(tokens)]

\* whether the line passes "if (line.empty()) continue" and the extraction
\* "iss >> word_str" (bpe.cpp: "iss >> word_str >> tf >> df")
Accepted(v, ln) ==
    /\ ln.word # <<>>
    /\ v = "tf" => Len(ln.fields) >= 2

\* words.push_back(entry) that drops an entry equal to one already stored
PushBack_Dedup(ws, entry) ==
    IF \E i \in 1..Len(ws) : ws[i] = entry THEN ws ELSE Append(ws, entry)

\* words.push_back(entry)
PushBack(ws, entry) == Append(ws, entry)

\* the body of "while (getline(infile, line))" for the line ln: a line that
\* is not accepted is skipped; where from_bytes throws nothing catches the
\* exception and the process is aborted
ReadRecord(ln) ==
    /\ pc = "read"
    /\ UNCHANGED <<argc, is_open>>
    /\ UNCHANGED tfdf_vars
    /\ UNCHANGED <<list_vars, clean_vars>>
    /\ line' = ln
    /\ IF ~Accepted(variant, ln)
       THEN UNCHANGED <<pc, exit_status, words, token_to_id, id_to_token>>
       ELSE LET wide_word == FromBytes(ln.word)
                r == TokenizeFrom(wide_word.wide, 1, token_to_id, id_to_token, <<>>)
            IN IF ~wide_word.ok
               THEN /\ pc' = "aborted"
                    /\ exit_status' = Aborted
                    /\ UNCHANGED <<words, token_to_id, id_to_token>>
               ELSE /\ words' = PushBack(words, NewEntry(variant, ln, r.tokens))
                    /\ token_to_id' = r.ids
                    /\ id_to_token' = r.toks
                    /\ UNCHANGED <<pc, exit_status>>
    /\ UNCHANGED <<variant, pair_to_word_indices, merges, best_pair, best_freq,
                   corpus, st, sz, last, cpos, oob, final_frequencies>>

\* the lines of the bounded input that can follow the words loaded so far
FittingLines ==
    IF pc = "read"
    THEN LET room == MaxChars - CharsLoaded
         IN {ln \in Lines : Len(ln.word) <= room}
    ELSE {}

\* one iteration of "while (getline(infile, line))" on a line of the
\* bounded input
ReadLine(ln) ==
    /\ ln \in FittingLines
    /\ ReadRecord(ln)

\* what the failed getline at the end of the file leaves in line: behind a
\* final newline the stream is still good, line is erased and nothing is
\* read; without one the last getline has set eofbit, the sentry fails and
\* line keeps the last line
LineAtEof(final_newline, last_line, erased) ==
    IF final_newline THEN erased ELSE last_line

\* getline fails: the file is read, and infile is closed
EndOfFile(final_newline) ==
    /\ pc = "read"
    /\ UNCHANGED argc
    /\ is_open' = [is_open EXCEPT !.infile = FALSE]
    /\ UNCHANGED tfdf_vars
    /\ UNCHANGED <<list_vars, clean_vars>>
    /\ pc' = IF variant = "sa" THEN "automaton" ELSE "index"
    /\ line' = LineAtEof(final_newline, line, NoLine)
    /\ UNCHANGED <<variant, words, id_to_token, token_to_id, pair_to_word_indices,
                   merges, best_pair, best_freq, corpus, st, sz, last, cpos, oob,
                   final_frequencies, exit_status>>

\* one state per character and the root, and no more
Preallocated_Tight(n) == n + 1

\* "st.resize(2 * n)": the number of states the constructor allocates
Preallocated(n) == 2 * n

\* the corpus string and the head of the SuffixAutomaton constructor.  With
\* an empty corpus st has no element and the writes to st[0] are out of
\* range: the run either dies there or goes on
NewAutomaton ==
    /\ pc = "automaton"
    /\ UNCHANGED <<argc, is_open>>
    /\ UNCHANGED tfdf_vars
    /\ UNCHANGED <<list_vars, clean_vars>>
    /\ LET c == JoinCorpus(words, 1)
           n == Len(c)
       IN /\ corpus' = c
          /\ IF n = 0
             THEN /\ st' = EmptyMap
                  /\ oob' = TRUE
                  /\ \/ pc' = "crashed" /\ exit_status' = Segfault
                     \/ pc' = "extend" /\ UNCHANGED exit_status
             ELSE /\ st' = [i \in 0..(Preallocated(n) - 1) |->
                              IF i = 0 THEN [DefaultState EXCEPT !.link = -1]
                              ELSE DefaultState]
                  /\ oob' = FALSE
                  /\ pc' = "extend"
                  /\ UNCHANGED exit_status
    /\ sz' = 1
    /\ last' = 0
    /\ cpos' = 0
    /\ UNCHANGED <<variant, words, id_to_token, token_to_id, pair_to_word_indices,
                   merges, best_pair, best_freq, final_frequencies, line>>

\* one iteration of "for (char c : s) sz = extend(c, sz, last)"
Extend ==
    /\ pc = "extend"
    /\ UNCHANGED <<argc, is_open>>
    /\ UNCHANGED tfdf_vars
    /\ UNCHANGED <<list_vars, clean_vars>>
    /\ cpos < Len(corpus)
    /\ LET cap    == Cardinality(DOMAIN st)
           padded == [i \in 0..(cap + 1) |-> IF i < cap THEN st[i] ELSE DefaultState]
           r      == extend(padded, corpus[cpos + 1], sz, last)
       IN IF r.sz <= cap
          THEN /\ st' = [i \in 0..(cap - 1) |-> r.st[i]]
               /\ sz' = r.sz
               /\ last' = r.last
               /\ cpos' = cpos + 1
               /\ UNCHANGED <<pc, oob, exit_status>>
          ELSE /\ oob' = TRUE
               /\ pc' = "crashed"
               /\ exit_status' = Segfault
               /\ UNCHANGED <<st, sz, last, cpos>>
    /\ UNCHANGED <<variant, words, id_to_token, token_to_id, pair_to_word_indices,
                   merges, best_pair, best_freq, corpus, final_frequencies, line>>

\* the rest of the constructor: resize to sz and propagate occ
FinishAutomaton ==
    /\ pc = "extend"
    /\ UNCHANGED <<argc, is_open>>
    /\ UNCHANGED tfdf_vars
    /\ UNCHANGED <<list_vars, clean_vars>>
    /\ cpos = Len(corpus)
    /\ st' = Propagate(st, sz)
    /\ pc' = "index"
    /\ UNCHANGED <<variant, words, id_to_token, token_to_id, pair_to_word_indices,
                   merges, best_pair, best_freq, corpus, sz, last, cpos, oob,
                   final_frequencies,
                   line, exit_status>>

\* pair_to_word_indices is filled from the words' pair sets
BuildIndex ==
    /\ pc = "index"
    /\ UNCHANGED <<argc, is_open>>
    /\ UNCHANGED tfdf_vars
    /\ UNCHANGED <<list_vars, clean_vars>>
    /\ pair_to_word_indices' = InitialIndex(words)
    /\ pc' = "scan"
    /\ UNCHANGED <<variant, words, id_to_token, token_to_id, merges, best_pair,
                   best_freq, corpus, st, sz, last, cpos, oob, final_frequencies,
                   line, exit_status>>

\* the first half of a loop iteration: the search for the best pair and
\* the test "if (best_freq < 2) break"
SelectBest ==
    /\ pc = "scan"
    /\ UNCHANGED <<argc, is_open>>
    /\ UNCHANGED tfdf_vars
    /\ UNCHANGED <<list_vars, clean_vars>>
    /\ best_freq' = BestFreq(words, pair_to_word_indices)
    /\ best_pair' \in BestPairs(words, pair_to_word_indices)
    /\ pc' = IF LoopBreaks(best_freq') THEN "terminated" ELSE "selected"
    /\ UNCHANGED <<variant, words, id_to_token, token_to_id, pair_to_word_indices,
                   merges, corpus, st, sz, last, cpos, oob, final_frequencies,
                   line, exit_status>>

\* "merges.insert(merges.begin(), rule)": the new rule put first
AppendRule_Front(ms, rule) == <<rule>> \o ms

\* merges.push_back(rule)
AppendRule(ms, rule) == Append(ms, rule)

\* the new token's string taken to be the first token's string alone
MergedString_Left(toks, pair) == TokenStr(toks, pair[1])

\* the two strings joined right before left
MergedString_Swapped(toks, pair) == TokenStr(toks, pair[2]) \o TokenStr(toks, pair[1])

\* "new_token_str = id_to_token[best_pair.first] + id_to_token[best_pair.second]"
MergedString(toks, pair) == TokenStr(toks, pair[1]) \o TokenStr(toks, pair[2])

\* the second half: new token, merge rule, update of the affected words
\* and of the index, erase of the merged pair
ApplyMerge ==
    /\ pc = "selected"
    /\ UNCHANGED <<argc, is_open>>
    /\ UNCHANGED tfdf_vars
    /\ UNCHANGED <<list_vars, clean_vars>>
    /\ LET new_token_str == MergedString(id_to_token, best_pair)
           g == get_token_id(token_to_id, id_to_token, new_token_str)
           original_freq == ReportedFrequency(variant, words, st, new_token_str, best_freq)
           affected_words == pair_to_word_indices[best_pair]
           r == UpdateWords(words, pair_to_word_indices, affected_words, best_pair, g.id)
       IN /\ token_to_id' = g.ids
          /\ id_to_token' = g.toks
          /\ merges' = AppendRule(merges, [merge_pair |-> best_pair, new_token |-> g.id,
                                           frequency |-> original_freq])
          /\ words' = r.words
          /\ pair_to_word_indices' = MapErase(r.index, best_pair)
    /\ pc' = "scan"
    /\ UNCHANGED <<variant, best_pair, best_freq, corpus, st, sz, last, cpos, oob,
                   final_frequencies,
                   line, exit_status>>

\* after the loop: the final frequency table, the two output files, which
\* are closed, and "return EXIT_SUCCESS"
Finalize ==
    /\ pc = "terminated"
    /\ UNCHANGED argc
    /\ is_open' = [is_open EXCEPT !.tokens_file = FALSE, !.merges_file = FALSE]
    /\ UNCHANGED tfdf_vars
    /\ UNCHANGED <<list_vars, clean_vars>>
    /\ final_frequencies' =
         IF variant = "tf" THEN FinalByTokens(words)
         ELSE FinalByOracle(variant, words, st, id_to_token)
    /\ pc' = "done"
    /\ exit_status' = EXIT_SUCCESS
    /\ UNCHANGED <<variant, words, id_to_token, token_to_id, pair_to_word_indices,
                   merges, best_pair, best_freq, corpus, st, sz, last, cpos, oob,
                   line>>

Next ==
    \/ \E locale_ok, infile_ok, tokens_ok, merges_ok \in BOOLEAN :
          Start(locale_ok, infile_ok, tokens_ok, merges_ok)
    \/ \E ln \in FittingLines : ReadLine(ln)
    \/ \E final_newline \in BOOLEAN : EndOfFile(final_newline)
    \/ NewAutomaton
    \/ Extend
    \/ FinishAutomaton
    \/ BuildIndex
    \/ SelectBest
    \/ ApplyMerge
    \/ Finalize

Spec == Init /\ [][Next]_vars

\* the input file of the scenario: the records low 5, lower 2, newest 6,
\* widest 3 (word, tf) with df 1
ScenarioRecords ==
    {[word |-> <<"l", "o", "w">>, fields |-> <<5, 1>>, empty |-> FALSE],
     [word |-> <<"l", "o", "w", "e", "r">>, fields |-> <<2, 1>>, empty |-> FALSE],
     [word |-> <<"n", "e", "w", "e", "s", "t">>, fields |-> <<6, 1>>, empty |-> FALSE],
     [word |-> <<"w", "i", "d", "e", "s", "t">>, fields |-> <<3, 1>>, empty |-> FALSE]}

\* one iteration of the reading loop on a record of the scenario that has
\* not been read yet (the records stand in the file in any order)
ReadScenario ==
    \E ln \in ScenarioRecords :
       /\ \A i \in 1..Len(words) : words[i].tf # ln.fields[1]
       /\ ReadRecord(ln)

\* the end of the scenario's file, after its four records
ScenarioEndOfFile ==
    /\ Len(words) = Cardinality(ScenarioRecords)
    /\ \E final_newline \in BOOLEAN : EndOfFile(final_newline)

\* the runs of the weighted trainer (bpe.cpp) on the scenario's file
InitScenario == Init /\ variant = "tf" /\ argc = 2

NextScenario ==
    \/ \E locale_ok, infile_ok, tokens_ok, merges_ok \in BOOLEAN :
          Start(locale_ok, infile_ok, tokens_ok, merges_ok)
    \/ ReadScenario
    \/ ScenarioEndOfFile
    \/ BuildIndex
    \/ SelectBest
    \/ ApplyMerge
    \/ Finalize

SpecScenario == InitScenario /\ [][NextScenario]_vars

\* the runs of the suffix-automaton trainer (bpe_sa.cpp) alone
InitSA == Init /\ variant = "sa"

\* the words of the two one-line input files of the clone scenario: in the
\* automaton of each, the clone that stands for a single character has
\* both states linked to it re-linked to later clones ("st[q].link =
\* st[cur].link = clone" of later calls of extend)
CloneScenarioWords ==
    {<<"b", "b", "b", "a", "b", "a", "b", "b", "a", "a", "a", "b", "a", "a", "a">>,
     <<"a", "a", "a", "b", "b", "b", "b", "a", "b", "b", "a", "b", "a", "a", "b">>}

\* the reading loop on the only line of a file of the clone scenario
ReadCloneScenario ==
    /\ words = <<>>
    /\ \E w \in CloneScenarioWords :
          ReadRecord([word |-> w, fields |-> <<>>, empty |-> FALSE])

\* the end of the file of the clone scenario, after its line
CloneScenarioEndOfFile ==
    /\ Len(words) = 1
    /\ \E final_newline \in BOOLEAN : EndOfFile(final_newline)

\* the runs of the suffix-automaton trainer (bpe_sa.cpp) on the files of
\* the clone scenario
NextCloneScenario ==
    \/ \E locale_ok, infile_ok, tokens_ok, merges_ok \in BOOLEAN :
          Start(locale_ok, infile_ok, tokens_ok, merges_ok)
    \/ ReadCloneScenario
    \/ CloneScenarioEndOfFile
    \/ NewAutomaton
    \/ Extend
    \/ FinishAutomaton
    \/ BuildIndex
    \/ SelectBest
    \/ ApplyMerge
    \/ Finalize

SpecCloneScenario == InitSA /\ [][NextCloneScenario]_vars

\* the steps of the trainers on files that end with a newline: the step
\* that ends the reading loop at the end of the file leaves line erased
NextNewline ==
    /\ Next
    /\ (pc = "read" /\ pc' \in {"automaton", "index"}) => line' = NoLine

\* main() is sequential code: an iteration of the merge loop that can run
\* does run (bpe_sa.cpp on the files that end with a newline)
FairSpecSA == InitSA /\ [][NextNewline]_vars /\ WF_vars(SelectBest \/ ApplyMerge)

(* ======================================================================= *)
(*                         properties of the trainers                      *)
(* ======================================================================= *)
\* the merge loop has been entered (the index is built)
InLoop == pc \in {"scan", "selected", "terminated", "done"}

\* positions of word i (1-based) where pair p stands adjacently in its tokens
PositionsOf(i, p) ==
    {k \in 1..(Len(words[i].tokens) - 1) :
        words[i].tokens[k] = p[1] /\ words[i].tokens[k + 1] = p[2]}

\* every pair adjacent in some word's current tokens, by a scan of all words
AdjacentPairs ==
    UNION {{<<words[i].tokens[k], words[i].tokens[k + 1]>> :
               k \in 1..(Len(words[i].tokens) - 1)} : i \in 1..Len(words)}

\* the weight of word i: its tf where the trainer keeps one, else 1
WeightOf(i) == IF variant = "tf" THEN words[i].tf ELSE 1

\* weighted frequency of p by a full rescan of all words
RescanFreq(p) ==
    SumOver(1..Len(words),
            [i \in 1..Len(words) |-> Cardinality(PositionsOf(i, p)) * WeightOf(i)])

\* the string of a word: its tokens' strings in order
RECURSIVE ConcatTokens(_, _)
ConcatTokens(tokens, k) ==
    IF k > Len(tokens) THEN <<>>
    ELSE TokenStr(id_to_token, tokens[k]) \o ConcatTokens(tokens, k + 1)

WordString(i) == ConcatTokens(words[i].tokens, 1)

\* total number of tokens over all words
TotalTokens == SumOver(1..Len(words), [i \in 1..Len(words) |-> Len(words[i].tokens)])

\* C1: index consistency.  Whenever the merge loop is at its head (initially
\* and after every merge iteration), every word index registered under a key
\* of pair_to_word_indices has that pair adjacent in its current tokens, and
\* every adjacent pair of every word is a key with that word registered.
IndexConsistency ==
    InLoop =>
      /\ \A p \in DOMAIN pair_to_word_indices :
           \A idx \in pair_to_word_indices[p] :
              idx + 1 \in 1..Len(words) /\ PositionsOf(idx + 1, p) # {}
      /\ \A i \in 1..Len(words) :
           \A k \in 1..(Len(words[i].tokens) - 1) :
              LET p == <<words[i].tokens[k], words[i].tokens[k + 1]>>
              IN p \in DOMAIN pair_to_word_indices
                   /\ (i - 1) \in pair_to_word_indices[p]

\* a merge iteration has run, the merged pair is gone from its words and a
\* pair with the new token has appeared and is a key of the index
IndexConsistencyWitness ==
    /\ pc = "scan"
    /\ Len(merges) >= 1
    /\ \E p \in DOMAIN pair_to_word_indices :
          p[1] = merges[Len(merges)].new_token \/ p[2] = merges[Len(merges)].new_token

\* the suffix automaton is constructed (bpe_sa.cpp, after the constructor)
AutomatonBuilt ==
    variant = "sa" /\ pc \in {"index", "scan", "selected", "terminated", "done"}

\* the non-empty substrings of s
Substrings(s) == {SubSeq(s, i, j) : i \in 1..Len(s), j \in 1..Len(s)} \ {<<>>}

\* C2: suffix automaton exactness.  For every non-empty substring S of the
\* corpus string the automaton was built from, countOccurrences(S) is the
\* number of start positions of S in the corpus, overlaps included, as the
\* sliding-window count_occurrences computes it.
SuffixAutomatonExact ==
    AutomatonBuilt =>
      \A S \in Substrings(corpus) :
         countOccurrences(st, S) = count_occurrences(corpus, S)

\* C3: maximal selection.  In every merge iteration the chosen best_pair is
\* adjacent in some word and its weighted frequency, recomputed by a full
\* rescan of all words' current tokens, is at least that of every other
\* adjacent pair.
MaximalSelection ==
    pc = "selected" =>
      /\ best_pair \in AdjacentPairs
      /\ \A p \in AdjacentPairs : RescanFreq(best_pair) >= RescanFreq(p)

\* a selection with a real choice: another pair also reaches the floor but
\* has a strictly smaller frequency than the chosen one
MaximalSelectionWitness ==
    /\ pc = "selected"
    /\ \E p \in AdjacentPairs :
          RescanFreq(p) >= 2 /\ RescanFreq(p) < RescanFreq(best_pair)

\* C6: minimum-frequency floor.  A merge is applied (and its rule appended)
\* only for a pair of weighted frequency >= 2, and the loop has stopped
\* only when no adjacent pair of any word has weighted frequency >= 2.
FrequencyFloor ==
    /\ pc = "selected" => best_freq >= 2 /\ RescanFreq(best_pair) >= 2
    /\ pc \in {"terminated", "done"} =>
          \A p \in AdjacentPairs : RescanFreq(p) < 2
    /\ variant = "tf" => \A k \in 1..Len(merges) : merges[k].frequency >= 2

\* the loop has merged at least once and then stopped although a pair is
\* still adjacent somewhere: that pair is below the floor
FrequencyFloorWitness ==
    /\ pc = "terminated"
    /\ Len(merges) >= 1
    /\ \E p \in AdjacentPairs : RescanFreq(p) = 1

\* C9: weighted frequency.  The frequency the selection computes for a key
\* is the sum over all words of (adjacent positions of the pair in the
\* word's current tokens) times (the word's weight: tf in the trainer that
\* keeps tf, 1 in the others); best_freq is that sum for best_pair.
WeightedFrequency ==
    /\ pc = "scan" =>
          \A p \in DOMAIN pair_to_word_indices :
             PairFreq(words, pair_to_word_indices, p) = RescanFreq(p)
    /\ pc = "selected" => best_freq = RescanFreq(best_pair)

\* the weighted trainer has selected a pair that stands in two words of
\* different tf, or twice in one word of tf > 1
WeightedFrequencyWitness ==
    /\ pc = "selected"
    /\ variant = "tf"
    /\ \/ \E i, j \in 1..Len(words) :
             /\ PositionsOf(i, best_pair) # {}
             /\ PositionsOf(j, best_pair) # {}
             /\ words[i].tf # words[j].tf
       \/ \E i \in 1..Len(words) :
             Cardinality(PositionsOf(i, best_pair)) >= 2 /\ words[i].tf >= 2

\* the string word i was loaded from: the stored original, or, in the
\* trainer that stores none, the concatenation of its tokens' strings
InitialString(i) == IF variant = "tf" THEN WordString(i) ELSE words[i].original

\* the characters (code points) word i was first segmented into
InitialChars(i) == FromBytes(InitialString(i)).wide

\* the distinct adjacent character pairs of the initial segmentation
InitialDistinctPairs ==
    UNION {{<<InitialChars(i)[k], InitialChars(i)[k + 1]>> :
               k \in 1..(Len(InitialChars(i)) - 1)} : i \in 1..Len(words)}

\* the adjacent positions of the initial segmentation, with multiplicity
InitialAdjacentPositions ==
    SumOver(1..Len(words),
            [i \in 1..Len(words) |->
               IF InitialChars(i) = <<>> THEN 0 ELSE Len(InitialChars(i)) - 1])

\* C5 as stated: the number of merge iterations never exceeds the number of
\* distinct adjacent symbol pairs of the initial per-character segmentation.
MergesWithinDistinctPairs ==
    Len(merges) <= Cardinality(InitialDistinctPairs)

\* C5, amended: the number of merge iterations never exceeds the number of
\* adjacent symbol positions of the initial per-character segmentation
\* (sum over the words of length - 1, pairs counted with multiplicity).
MergesWithinAdjacentPositions ==
    Len(merges) <= InitialAdjacentPositions

\* a finished run with more merges than distinct initial pairs
MergesWithinAdjacentPositionsWitness ==
    /\ pc = "done"
    /\ Len(merges) > Cardinality(InitialDistinctPairs)
    /\ Len(merges) = InitialAdjacentPositions

\* the strings <<left, right, result>> of merge rule k
RuleStrings(k) ==
    <<TokenStr(id_to_token, merges[k].merge_pair[1]),
      TokenStr(id_to_token, merges[k].merge_pair[2]),
      TokenStr(id_to_token, merges[k].new_token)>>

\* the input was the single word "aaaa" with weight 1, and is fully read
IsAAAA ==
    /\ pc # "read"
    /\ Len(words) = 1
    /\ InitialString(1) = <<"a", "a", "a", "a">>
    /\ WeightOf(1) = 1

\* C7 as stated: on {"aaaa": 1} exactly two merge rules are produced,
\* (a,a) -> aa and then (aa,aa) -> aaaa.
ScenarioAAAATwoMerges ==
    (IsAAAA /\ pc = "done") =>
      /\ Len(merges) = 2
      /\ RuleStrings(1) = <<(<<"a">>), (<<"a">>), (<<"a", "a">>)>>
      /\ RuleStrings(2) = <<(<<"a", "a">>), (<<"a", "a">>), (<<"a", "a", "a", "a">>)>>

\* C7, amended: on {"aaaa": 1} the pair (a,a) is selected with weighted
\* frequency 3 (its three overlapping adjacent positions) and merged into
\* aa, leaving the tokens [aa, aa]; (aa,aa) then has frequency 1, below the
\* floor, so the trainer terminates with exactly that one merge rule.
ScenarioAAAA ==
    /\ (IsAAAA /\ pc = "selected") =>
          /\ merges = <<>>
          /\ best_freq = 3
          /\ TokenStr(id_to_token, best_pair[1]) = <<"a">>
          /\ TokenStr(id_to_token, best_pair[2]) = <<"a">>
    /\ (IsAAAA /\ pc \in {"terminated", "done"}) =>
          /\ Len(merges) = 1
          /\ RuleStrings(1) = <<(<<"a">>), (<<"a">>), (<<"a", "a">>)>>
          /\ Len(words[1].tokens) = 2
          /\ words[1].tokens[1] = merges[1].new_token
          /\ words[1].tokens[2] = merges[1].new_token
          /\ best_freq = 1

\* the run on {"aaaa": 1} has finished
ScenarioAAAAWitness ==
    IsAAAA /\ pc = "done" /\ Len(merges) = 1

\* occurrences of str in the original, unsegmented words: start positions
\* inside each original word, overlaps included
ExactCount(str) ==
    SumOver(1..Len(words),
            [i \in 1..Len(words) |->
               Cardinality({b \in 1..Len(words[i].original) :
                              /\ b + Len(str) - 1 <= Len(words[i].original)
                              /\ \A d \in 1..Len(str) :
                                    words[i].original[b + d - 1] = str[d]})])

\* C8: reported frequency.  In the trainers that have an oracle, the
\* frequency recorded in every merge rule is the exact number of occurrences
\* of the new symbol's string in the original corpus.
ReportedFrequencyExact ==
    variant \in {"rescan", "sa"} =>
      \A k \in 1..Len(merges) :
         merges[k].frequency = ExactCount(TokenStr(id_to_token, merges[k].new_token))

\* C10: empty input.  When the input holds no valid word the trainer does
\* no out-of-range access, does not die, and ends with an empty symbol
\* table, an empty merge-rule list and an empty frequency table.
EmptyInputSucceeds ==
    (words = <<>> /\ pc \notin {"start", "failed", "read", "aborted"}) =>
      /\ ~oob
      /\ pc # "crashed"
      /\ pc = "done" =>
           /\ merges = <<>>
           /\ id_to_token = <<>>
           /\ final_frequencies = EmptyMap

\* C4: termination.  Every merge iteration strictly decreases the total
\* number of tokens summed over all words, and the merge loop, once
\* entered, reaches the Terminated state (bpe_sa.cpp, under FairSpecSA).
MergeLoopTerminates ==
    /\ [][pc = "selected" => TotalTokens' < TotalTokens]_vars
    /\ (pc = "scan") ~> (pc = "terminated")

\* the loop of bpe_sa.cpp has run a merge iteration that shortened a word
\* and has then terminated
MergeLoopTerminatesWitness ==
    /\ variant = "sa"
    /\ pc = "terminated"
    /\ Len(merges) >= 1
    /\ TotalTokens < Len(corpus) - Len(words)

RECURSIVE EncodeFrom(_, _)
\* the UTF-8 bytes of the code points wide[k], wide[k+1], ...
EncodeFrom(wide, k) ==
    IF k > Len(wide) THEN <<>> ELSE ToBytes(wide[k]) \o EncodeFrom(wide, k + 1)

\* word_str is UTF-8: it decodes, and into code points that stand for all
\* of its bytes
WellFormed(word_str) ==
    FromBytes(word_str).ok /\ EncodeFrom(FromBytes(word_str).wide, 1) = word_str

\* the line read last carries a word, and the word's bytes are UTF-8
WordLineRead ==
    pc = "read" /\ line.word # <<>> /\ WellFormed(line.word)

\* C11: optional weight.  The loader accepts a record with a weight field
\* as well as a record of the word alone: the line read last, whatever
\* numeric fields follow its word, has become the last WordEntry, and a
\* record without weight has weight 1 there.
OptionalWeight ==
    WordLineRead =>
      /\ words # <<>>
      /\ InitialString(Len(words)) = line.word
      /\ line.fields = <<>> => WeightOf(Len(words)) = 1

\* C12: loader record handling.  In every iteration of the reading loop a
\* blank or malformed line is skipped and reading goes on with the words
\* loaded so far untouched; a line that is accepted (and whose word is UTF-8)
\* adds exactly one WordEntry, for its word, at the end of words, whether
\* or not the same word string was loaded before.
LoaderRecordHandling ==
    [][(pc = "read" /\ pc' \in {"read", "aborted"}) =>
          IF ~Accepted(variant, line')
          THEN pc' = "read" /\ words' = words
          ELSE WellFormed(line'.word) =>
                 /\ pc' = "read"
                 /\ Len(words') = Len(words) + 1
                 /\ SubSeq(words', 1, Len(words)) = words
                 /\ InitialString(Len(words))' = line'.word]_vars

\* the same word string has been loaded twice, as two entries, and the
\* line read last was malformed (white space only) and skipped
LoaderRecordHandlingWitness ==
    /\ pc = "read"
    /\ ~line.empty /\ line.word = <<>>
    /\ \E i, j \in 1..Len(words) : i < j /\ InitialString(i) = InitialString(j)

\* C13: decode errors are recoverable.  In every iteration of the reading
\* loop, a line whose word is not a valid UTF-8 sequence is skipped: no
\* WordEntry is made of it, the trainer does not abort, and reading goes on
\* with the next record.
DecodeErrorRecoverable ==
    [][(/\ pc = "read"
        /\ pc' \in {"read", "aborted"}
        /\ Accepted(variant, line')
        /\ ~WellFormed(line'.word)) =>
          /\ pc' = "read"
          /\ exit_status' = exit_status
          /\ words' = words]_vars

\* C14: exit status.  A run that completes training and writes its two
\* output files ends with exit status 0, and no other run does; when the
\* argument is missing, the input file cannot be opened or one of the two
\* output files cannot be created, the head of main() ends the run with a
\* non-zero status, no word loaded and no iteration of the merge loop run,
\* and a run that has ended so takes no further step.
ExitStatus ==
    [][/\ (pc' = "done") = (exit_status' = 0)
       /\ pc \notin {"failed", "aborted", "crashed", "done"}
       /\ pc = "start" =>
            /\ pc' \in {"read", "failed", "aborted"}
            /\ (\/ argc < 2
                \/ ~is_open'.infile
                \/ ~is_open'.tokens_file
                \/ ~is_open'.merges_file) =>
                  /\ pc' \in {"failed", "aborted"}
                  /\ exit_status' # 0 /\ exit_status' # -1
                  /\ words' = <<>> /\ merges' = <<>> /\ best_freq' = 0]_vars

\* the argument is given and the input file opens, but only one of the two
\* output files can be created: the run has ended in failure
ExitStatusWitness ==
    /\ pc = "failed"
    /\ argc >= 2 /\ is_open.infile
    /\ is_open.tokens_file /\ ~is_open.merges_file

\* the strings the symbol table is probed with: characters, and strings
\* that merges create
Probes ==
    {<<"a">>, <<"b">>, <<Separator>>, <<LeadByte, ContByte>>,
     <<"a", "a">>, <<"a", "b">>, <<"a", "a", "a">>, <<"a", LeadByte, ContByte>>}

\* the two tables are mutually inverse, with the ids 0..n-1
SymbolTableInverse ==
    LET n == Len(id_to_token)
    IN /\ Cardinality(DOMAIN token_to_id) = n
       /\ \A s \in DOMAIN token_to_id :
             token_to_id[s] \in 0..(n - 1) /\ TokenStr(id_to_token, token_to_id[s]) = s
       /\ \A i \in 0..(n - 1) :
             LET r == get_token_id(token_to_id, id_to_token, TokenStr(id_to_token, i))
             IN r.id = i /\ r.ids = token_to_id /\ r.toks = id_to_token

\* a call of get_token_id on the current tables returns an id that stands
\* for the string asked for, keeps every id already given, and gives a
\* string not seen before the next id, n
SymbolTableCall ==
    LET n == Len(id_to_token)
    IN \A s \in Probes :
          LET r == get_token_id(token_to_id, id_to_token, s)
          IN /\ TokenStr(r.toks, r.id) = s
             /\ r.ids[s] = r.id
             /\ SubSeq(r.toks, 1, n) = id_to_token
             /\ \A t \in DOMAIN token_to_id : r.ids[t] = token_to_id[t]
             /\ s \notin DOMAIN token_to_id => r.id = n /\ Len(r.toks) = n + 1
             /\ s \in DOMAIN token_to_id => r.toks = id_to_token

\* C16: symbol table.  At every point of a run the ids are the dense
\* integers 0..n-1, string -> id is injective and the two tables are
\* mutually inverse (looking up the string of an id returns that id and
\* allocates nothing); a call of get_token_id gives a new string the next
\* id; and no step of the run changes or removes an id already assigned.
SymbolTable ==
    /\ [](SymbolTableInverse /\ SymbolTableCall)
    /\ [][/\ Len(id_to_token') >= Len(id_to_token)
          /\ SubSeq(id_to_token', 1, Len(id_to_token)) = id_to_token
          /\ \A s \in DOMAIN token_to_id :
                s \in DOMAIN token_to_id' /\ token_to_id'[s] = token_to_id[s]]_vars

\* a character was interned once and asked for again (it stands twice in a
\* word), and a merge has since created a further symbol
SymbolTableWitness ==
    /\ pc = "scan"
    /\ Len(merges) >= 1
    /\ merges[Len(merges)].new_token = Len(id_to_token) - 1
    /\ \E i \in 1..Len(words) : \E k \in 1..(Len(words[i].tokens) - 1) :
          words[i].tokens[k] = words[i].tokens[k + 1]

\* C17: the merge-rule list is append-only.  A merge iteration (the step
\* from a selected pair) lengthens merges by exactly one rule, the rule of
\* the selected pair, put at the end; no other step changes merges; and no
\* step modifies, reorders or removes a rule already in the list, which is
\* therefore a prefix of the list at every later time.
MergesAppendOnly ==
    [][/\ SubSeq(merges', 1, Len(merges)) = merges
       /\ IF pc = "selected"
          THEN /\ Len(merges') = Len(merges) + 1
               /\ merges'[Len(merges')].merge_pair = best_pair
          ELSE merges' = merges]_vars

\* a second rule has been appended behind a first one
MergesAppendOnlyWitness ==
    /\ pc = "scan"
    /\ Len(merges) = 2
    /\ merges[1].new_token # merges[2].new_token

\* C18: final vocabulary.  When a trainer with an oracle has finished, the
\* frequency table holds exactly the symbols ever created whose string
\* occurs in the original corpus, each with its exact number of
\* occurrences there; the symbols that occur nowhere are left out.
FinalVocabularyExact ==
    (pc = "done" /\ variant \in {"rescan", "sa"}) =>
       LET ids == 0..(Len(id_to_token) - 1)
       IN /\ DOMAIN final_frequencies =
                {t \in ids : ExactCount(TokenStr(id_to_token, t)) > 0}
          /\ \A t \in DOMAIN final_frequencies :
                final_frequencies[t] = ExactCount(TokenStr(id_to_token, t))

\* the pair of the strings of the two tokens of p
PairStrings(p) == <<TokenStr(id_to_token, p[1]), TokenStr(id_to_token, p[2])>>

\* the four records of the scenario are loaded and the file is at its end
ScenarioLoaded ==
    /\ variant = "tf"
    /\ pc \notin {"start", "failed", "read"}
    /\ {<<WordString(i), words[i].tf>> : i \in 1..Len(words)} =
          {<<ln.word, ln.fields[1]>> : ln \in ScenarioRecords}

\* C19: scenario.  On the input low 5, lower 2, newest 6, widest 3 with
\* weight = tf, the pair selected in the first iteration has the maximal
\* weighted adjacent frequency over the per-character segmentations of the
\* four words; (e,s) has that maximal frequency, 9, which it shares with
\* (s,t), so the pair of the first merge rule is (e,s) or its tie (s,t).
ScenarioLowFirstMerge ==
    /\ (ScenarioLoaded /\ pc = "selected" /\ merges = <<>>) =>
          /\ \A p \in AdjacentPairs : RescanFreq(p) <= RescanFreq(best_pair)
          /\ best_freq = 9
          /\ \E p \in AdjacentPairs :
                PairStrings(p) = <<(<<"e">>), (<<"s">>)>> /\ RescanFreq(p) = best_freq
          /\ PairStrings(best_pair) \in
                {<<(<<"e">>), (<<"s">>)>>, <<(<<"s">>), (<<"t">>)>>}
    /\ (ScenarioLoaded /\ Len(merges) >= 1) =>
          /\ merges[1].frequency = 9
          /\ PairStrings(merges[1].merge_pair) \in
                {<<(<<"e">>), (<<"s">>)>>, <<(<<"s">>), (<<"t">>)>>}

\* the run on the scenario has merged (e,s) into es as its first rule
ScenarioLowFirstMergeWitness ==
    /\ ScenarioLoaded
    /\ pc = "scan"
    /\ Len(merges) = 1
    /\ RuleStrings(1) = <<(<<"e">>), (<<"s">>), (<<"e", "s">>)>>

\* C20: separator soundness.  In the suffix-automaton trainer the separator
\* joined behind every original word occurs in no WordEntry's original
\* string, hence in no symbol's string, and the occurrences of a symbol's
\* string in the corpus string are exactly its occurrences inside the
\* original words: none contains a separator or spans two words.
SeparatorSound ==
    (variant = "sa" /\ pc \in {"extend", "index", "scan", "selected",
                               "terminated", "done"}) =>
       /\ \A i \in 1..Len(words) : \A k \in 1..Len(words[i].original) :
             words[i].original[k] # Separator
       /\ \A t \in 0..(Len(id_to_token) - 1) :
             /\ \A k \in 1..Len(TokenStr(id_to_token, t)) :
                   TokenStr(id_to_token, t)[k] # Separator
             /\ count_occurrences(corpus, TokenStr(id_to_token, t)) =
                   ExactCount(TokenStr(id_to_token, t))

(* ------------------- propagation, merging, frames ---------------------- *)
\* C23: propagation order.  Once the automaton is built, the propagation
\* loop has visited the states in decreasing order of len, and no state
\* that has a suffix link received an occ from a state visited after it:
\* its occ was final when it was added into its link target.
PropagationByDecreasingLen ==
    AutomatonBuilt =>
        LET visit == PropagationOrder(st, sz)
        IN /\ \A j, k \in 1..sz :
                  j < k => st[visit[j]].len >= st[visit[k]].len
           /\ \A j, k \in 1..sz :
                  (j < k /\ st[visit[j]].link # -1) => st[visit[k]].link # visit[j]

\* the tokens with every new_token_id replaced by the two tokens of pair
RECURSIVE Unmerge(_, _, _, _)
Unmerge(tokens, pair, new_token_id, k) ==
    IF k > Len(tokens) THEN <<>>
    ELSE (IF tokens[k] = new_token_id THEN <<pair[1], pair[2]>> ELSE <<tokens[k]>>)
         \o Unmerge(tokens, pair, new_token_id, k + 1)

\* pair stands adjacently somewhere in tokens
HasAdjacent(tokens, pair) ==
    \E k \in 1..(Len(tokens) - 1) : tokens[k] = pair[1] /\ tokens[k + 1] = pair[2]

\* C24: greedy merge within a word.  In a merge iteration of pair P into
\* N, every word registered under P gets the tokens of a left-to-right
\* scan that replaces every non-overlapping occurrence of P by N: undoing
\* the replacement gives the old tokens back, P no longer stands adjacently,
\* and where P = (x,x) no x is left standing before an N (so [x,x,x] becomes
\* [N,x]).  After the update loop no word's tokens contain P adjacently and
\* P is not a key of the index.
GreedyMerge ==
    [][(pc = "selected" /\ pc' = "scan") =>
          LET P == best_pair
              N == merges'[Len(merges')].new_token
          IN /\ \A i \in 1..Len(words) :
                   (i - 1) \in pair_to_word_indices[P] =>
                      LET r == words'[i].tokens
                      IN /\ Unmerge(r, P, N, 1) = words[i].tokens
                         /\ ~HasAdjacent(r, P)
                         /\ P[1] = P[2] => ~HasAdjacent(r, <<P[1], N>>)
             /\ \A i \in 1..Len(words') : ~HasAdjacent(words'[i].tokens, P)
             /\ P \notin DOMAIN pair_to_word_indices']_vars

\* the pair (x,x) has been merged in a word that held three x in a row:
\* the word's tokens are now [N, x]
GreedyMergeWitness ==
    /\ pc = "scan"
    /\ Len(merges) >= 1
    /\ LET rule == merges[Len(merges)]
       IN /\ rule.merge_pair[1] = rule.merge_pair[2]
          /\ \E i \in 1..Len(words) :
                words[i].tokens = <<rule.new_token, rule.merge_pair[1]>>

\* word index idx (0-based) is registered under pair p in index
Registered(index, p, idx) == p \in DOMAIN index /\ idx \in index[p]

\* what a word entry carries from the input besides its tokens
LoadedFields(w) == IF variant = "tf" THEN <<w.tf, w.df>> ELSE <<w.original>>

\* C25: frame of a merge iteration.  A merge iteration changes the tokens
\* and the pairSet of exactly the words registered under the chosen pair:
\* every other word's entry is unchanged and so is every registration of
\* every other word in the index; and no step of the program modifies the
\* original string or the weight of a word that is loaded.
MergeFrame ==
    [][/\ (pc = "selected" /\ pc' = "scan") =>
             LET affected_words == pair_to_word_indices[best_pair]
             IN /\ Len(words') = Len(words)
                /\ \A i \in 1..Len(words) :
                      IF (i - 1) \in affected_words
                      THEN /\ words'[i].tokens # words[i].tokens
                           /\ words'[i].pairSet # words[i].pairSet
                      ELSE /\ words'[i] = words[i]
                           /\ \A p \in DOMAIN pair_to_word_indices
                                         \cup DOMAIN pair_to_word_indices' :
                                 Registered(pair_to_word_indices', p, i - 1)
                                    <=> Registered(pair_to_word_indices, p, i - 1)
       /\ \A i \in 1..Len(words) :
             /\ i <= Len(words')
             /\ LoadedFields(words'[i]) = LoadedFields(words[i])]_vars

\* a merge has run, and a word that does not hold the new token is still
\* registered under a pair (x, first) that a word holding the new token
\* lost when (first, second) was merged after x
MergeFrameWitness ==
    /\ pc = "scan"
    /\ Len(merges) >= 1
    /\ LET rule == merges[Len(merges)]
       IN \E i, j \in 1..Len(words) :
             /\ \E k \in 2..Len(words[i].tokens) :
                   /\ words[i].tokens[k] = rule.new_token
                   /\ <<words[i].tokens[k - 1], rule.merge_pair[1]>> \notin words[i].pairSet
                   /\ Registered(pair_to_word_indices,
                                 <<words[i].tokens[k - 1], rule.merge_pair[1]>>, j - 1)
             /\ \A k \in 1..Len(words[j].tokens) : words[j].tokens[k] # rule.new_token

\* C26: key lifecycle.  Between iterations (at the head of the merge loop)
\* a pair is a key of pair_to_word_indices exactly when some word's current
\* tokens contain it adjacently, and no key maps to an empty set: a key is
\* gone as soon as the last word registered under it stops containing it.
KeyLifecycle ==
    pc = "scan" =>
      /\ DOMAIN pair_to_word_indices = AdjacentPairs
      /\ \A p \in DOMAIN pair_to_word_indices : pair_to_word_indices[p] # {}

\* a merge has run in which a pair other than the merged one lost its last
\* registered word: a word holds the new token after a token x, and the
\* pair (x, first) is no key any more
KeyLifecycleWitness ==
    /\ pc = "scan"
    /\ Len(merges) >= 1
    /\ LET rule == merges[Len(merges)]
       IN \E i \in 1..Len(words) :
             \E k \in 2..Len(words[i].tokens) :
                /\ words[i].tokens[k] = rule.new_token
                /\ <<words[i].tokens[k - 1], rule.merge_pair[1]>> # rule.merge_pair
                /\ <<words[i].tokens[k - 1], rule.merge_pair[1]>>
                      \notin DOMAIN pair_to_word_indices

\* C27: merged symbol string.  For every recorded rule the string of the
\* new token is the string of the pair's first token followed by the string
\* of its second token, and looking that string up again in the symbol
\* table gives the recorded token: merging the same pair of IDs yields the
\* same result ID.
MergedSymbolString ==
    \A k \in 1..Len(merges) :
       LET rule  == merges[k]
           left  == TokenStr(id_to_token, rule.merge_pair[1])
           right == TokenStr(id_to_token, rule.merge_pair[2])
       IN /\ TokenStr(id_to_token, rule.new_token) = left \o right
          /\ get_token_id(token_to_id, id_to_token, left \o right).id = rule.new_token
          /\ \A j \in 1..Len(merges) :
                merges[j].merge_pair = rule.merge_pair
                   => merges[j].new_token = rule.new_token

\* a rule is recorded whose two tokens have different strings, and a later
\* rule has been recorded after it
MergedSymbolStringWitness ==
    /\ Len(merges) >= 2
    /\ TokenStr(id_to_token, merges[1].merge_pair[1])
          # TokenStr(id_to_token, merges[1].merge_pair[2])

\* the patterns the automaton is asked about
Patterns == SeqsUpTo(Alphabet \cup {Separator}, 3)

\* C28: absent pattern.  Once the automaton is built, countOccurrences
\* answers 0 for every pattern that is not a substring of the string it was
\* built from, and never 0 for a non-empty substring of it.
AbsentPattern ==
    AutomatonBuilt =>
      /\ \A S \in Patterns :
            count_occurrences(corpus, S) = 0 => countOccurrences(st, S) = 0
      /\ \A S \in Substrings(corpus) : countOccurrences(st, S) # 0

\* no line of the input holds the separator
SeparatorFree ==
    \A i \in 1..Len(words) : \A k \in 1..Len(words[i].original) :
       words[i].original[k] # Separator

\* C29: oracle variants agree.  On an input without '#', what the
\* suffix-automaton trainer records is what the rescan trainer records on
\* the same words and the same merges: every rule's frequency is the sum of
\* count_occurrences over the original words, and the final table is the
\* rescan trainer's final table.
OracleVariantsAgree ==
    (variant = "sa" /\ SeparatorFree) =>
       /\ \A k \in 1..Len(merges) :
             merges[k].frequency =
                ReportedFrequency("rescan", words, st,
                                  TokenStr(id_to_token, merges[k].new_token), 0)
       /\ pc = "done" =>
             final_frequencies = FinalByOracle("rescan", words, st, id_to_token)

\* C30: segmentation preserves the word.  In the trainers that keep a
\* word's original string, at every point and for every word the strings of
\* the word's current tokens, concatenated in order, are exactly its
\* original string.
SegmentationPreservesWord ==
    variant \in {"rescan", "sa"} =>
       \A i \in 1..Len(words) : WordString(i) = words[i].original

(* ======================================================================= *)
(*                 tf_df.cpp: term and document frequencies                *)
(* ======================================================================= *)
\* the largest number of non-empty lines of the clean file
MaxLines == 2

\* the lines of the clean file: an empty line, a line of blanks, and lines
\* of whitespace-separated words (a word is its characters)
TfDfLines ==
    {[words |-> <<>>, empty |-> TRUE], [words |-> <<>>, empty |-> FALSE]}
      \cup [words : {<<(<<"a">>)>>, <<(<<"A">>), (<<"a">>)>>,
                     <<(<<"a">>), (<<"b">>)>>, <<(<<"b">>), (<<"b">>)>>},
            empty : {FALSE}]

\* the values thread::hardware_concurrency() returns
HardwareConcurrency == {0, 1, 2}

\* "if (num_threads == 0) num_threads = 4"
DefaultThreads == 4

\* ::tolower on one character
ToLowerChar(c) == IF c = "A" THEN "a" ELSE c

\* transform(word.begin(), word.end(), word.begin(), ::tolower)
ToLower(word) == [k \in DOMAIN word |-> ToLowerChar(word[k])]

\* the entry of word in map m as operator[] gives it (value-initialised
\* when absent)
EntryOf(m, word) == IF word \in DOMAIN m THEN m[word] ELSE [first |-> 0, second |-> 0]

RECURSIVE CountWords(_, _, _)
\* "for (auto &word : words) { tolower; local_map[word].first++; ... }"
\* from the k-th word of the line on
CountWords(local_map, words_of_line, k) ==
    IF k > Len(words_of_line) THEN local_map
    ELSE LET word == ToLower(words_of_line[k])
             e    == EntryOf(local_map, word)
         IN CountWords(MapPut(local_map, word, [e EXCEPT !.first = @ + 1]),
                       words_of_line, k + 1)

RECURSIVE CountUnique(_, _)
\* "for (const auto &word : unique_words) local_map[word].second++"
CountUnique(local_map, unique_words) ==
    IF unique_words = {} THEN local_map
    ELSE LET word == CHOOSE w \in unique_words : TRUE
             e    == EntryOf(local_map, word)
         IN CountUnique(MapPut(local_map, word, [e EXCEPT !.second = @ + 1]),
                        unique_words \ {word})

\* the body of the loop of process_lines for one line
ProcessLine(local_map, words_of_line) ==
    CountUnique(CountWords(local_map, words_of_line, 1),
                {ToLower(words_of_line[k]) : k \in 1..Len(words_of_line)})

\* the chunk size rounded down ("total_lines / num_threads")
ChunkSize_Floor(total_lines, n) == total_lines \div n

\* "chunk_size = (total_lines + num_threads - 1) / num_threads"
ChunkSize(total_lines, n) == (total_lines + n - 1) \div n

\* "start = t * chunk_size"
RangeStart(t, chunk_size) == t * chunk_size

\* "end = min(total_lines, start + chunk_size)"
RangeEnd(total_lines, start, chunk_size) ==
    IF total_lines < start + chunk_size THEN total_lines ELSE start + chunk_size

\* the local map every worker is handed: one map shared by all workers
LocalMapRef_Shared(t) == 0

\* "ref(local_maps[t])": the local map worker t is handed
LocalMapRef(t) == t

RECURSIVE AddEntries(_, _, _)
\* "for (const auto &entry : local_maps[t]) global_map[entry.first] += ..."
AddEntries(global, local_map, keys) ==
    IF keys = {} THEN global
    ELSE LET word == CHOOSE w \in keys : TRUE
             e    == EntryOf(global, word)
         IN AddEntries(MapPut(global, word,
                              [first  |-> e.first + local_map[word].first,
                               second |-> e.second + local_map[word].second]),
                       local_map, keys \ {word})

RECURSIVE CombineFrom(_, _, _)
\* the loop "for (t = 0; t < num_threads; t++)" over the local maps
CombineFrom(global, maps, t) ==
    IF t > Len(maps) THEN global
    ELSE CombineFrom(AddEntries(global, maps[t], DOMAIN maps[t]), maps, t + 1)

\* tf_df.cpp with its input file open
InitTfDf ==
    /\ variant = "tf_df"
    /\ pc = "getline"
    /\ words = <<>>
    /\ id_to_token = <<>>
    /\ token_to_id = EmptyMap
    /\ pair_to_word_indices = EmptyMap
    /\ merges = <<>>
    /\ best_pair = <<-1, -1>>
    /\ best_freq = 0
    /\ corpus = <<>>
    /\ st = EmptyMap
    /\ sz = 0
    /\ last = 0
    /\ cpos = 0
    /\ oob = FALSE
    /\ final_frequencies = EmptyMap
    /\ line = [words |-> <<>>, empty |-> TRUE]
    /\ exit_status = -1
    /\ argc = 2
    /\ is_open = [infile |-> TRUE, tokens_file |-> FALSE, merges_file |-> FALSE]
    /\ lines = <<>>
    /\ num_threads = 0
    /\ local_maps = <<>>
    /\ threads = <<>>
    /\ global_map = EmptyMap
    /\ nodes = <<>>
    /\ head = 0
    /\ tail = 0
    /\ pairMap = EmptyMap
    /\ bestPair = <<-1, -1>>
    /\ bestFreq = 0
    /\ thread_outputs = <<>>
    /\ outfile = <<>>
    /\ mode = ""
    /\ locale = "C"

\* "while (getline(infile, line)) if (!line.empty()) lines.push_back(line)"
TfDfGetLine(ln) ==
    /\ pc = "getline"
    /\ ln.empty \/ Len(lines) < MaxLines
    /\ line' = ln
    /\ lines' = IF ln.empty THEN lines ELSE Append(lines, ln.words)
    /\ UNCHANGED <<variant, pc, num_threads, local_maps, threads, global_map>>
    /\ UNCHANGED trainer_vars
    /\ UNCHANGED <<list_vars, clean_vars>>

\* the end of the file: num_threads is taken from the hardware and the
\* local maps are created
TfDfEndOfFile(final_newline, hardware_concurrency) ==
    /\ pc = "getline"
    /\ line' = LineAtEof(final_newline, line, [words |-> <<>>, empty |-> TRUE])
    /\ is_open' = [is_open EXCEPT !.infile = FALSE]
    /\ num_threads' = IF hardware_concurrency = 0 THEN DefaultThreads
                      ELSE hardware_concurrency
    /\ local_maps' = [t \in 1..num_threads' |-> EmptyMap]
    /\ pc' = "fork"
    /\ UNCHANGED <<variant, lines, threads, global_map>>
    /\ UNCHANGED <<words, id_to_token, token_to_id, pair_to_word_indices, merges,
                   best_pair, best_freq, corpus, st, sz, last, cpos, oob,
                   final_frequencies, exit_status, argc>>
    /\ UNCHANGED <<list_vars, clean_vars>>

\* one round of the loop that starts the workers: thread t gets its range
\* [start, end) and the reference to its local map
SpawnThread ==
    /\ pc = "fork"
    /\ Len(threads) < num_threads
    /\ LET t          == Len(threads)
           total_lines == Len(lines)
           chunk_size == ChunkSize(total_lines, num_threads)
           start      == RangeStart(t, chunk_size)
           end        == RangeEnd(total_lines, start, chunk_size)
       IN threads' = Append(threads, [start |-> start, end |-> end, i |-> start,
                                      local_map |-> LocalMapRef(t),
                                      state |-> "running"])
    /\ UNCHANGED <<variant, pc, line, lines, num_threads, local_maps, global_map>>
    /\ UNCHANGED trainer_vars
    /\ UNCHANGED <<list_vars, clean_vars>>

\* worker t handles its next line: process_lines, one round of its loop
ProcessLines(t) ==
    /\ pc = "fork"
    /\ t \in 1..Len(threads)
    /\ threads[t].state = "running"
    /\ threads[t].i < threads[t].end
    /\ local_maps' = [local_maps EXCEPT ![threads[t].local_map + 1] =
                         ProcessLine(@, lines[threads[t].i + 1])]
    /\ threads' = [threads EXCEPT ![t].i = @ + 1]
    /\ UNCHANGED <<variant, pc, line, lines, num_threads, global_map>>
    /\ UNCHANGED trainer_vars
    /\ UNCHANGED <<list_vars, clean_vars>>

\* worker t leaves process_lines: its loop condition i < end is false
WorkerReturn(t) ==
    /\ pc = "fork"
    /\ t \in 1..Len(threads)
    /\ threads[t].state = "running"
    /\ ~(threads[t].i < threads[t].end)
    /\ threads' = [threads EXCEPT ![t].state = "finished"]
    /\ UNCHANGED <<variant, pc, line, lines, num_threads, local_maps, global_map>>
    /\ UNCHANGED trainer_vars
    /\ UNCHANGED <<list_vars, clean_vars>>

\* one round of "for (auto &th : threads) th.join()": main waits for the
\* first thread not yet joined, after all threads are started
JoinThread ==
    /\ pc = "fork"
    /\ Len(threads) = num_threads
    /\ \E t \in 1..Len(threads) :
          /\ \A u \in 1..(t - 1) : threads[u].state = "joined"
          /\ threads[t].state = "finished"
          /\ threads' = [threads EXCEPT ![t].state = "joined"]
    /\ UNCHANGED <<variant, pc, line, lines, num_threads, local_maps, global_map>>
    /\ UNCHANGED trainer_vars
    /\ UNCHANGED <<list_vars, clean_vars>>

\* after the last join: the local maps are added up into global_map
CombineMaps ==
    /\ pc = "fork"
    /\ Len(threads) = num_threads
    /\ \A t \in 1..Len(threads) : threads[t].state = "joined"
    /\ global_map' = CombineFrom(EmptyMap, local_maps, 1)
    /\ pc' = "combined"
    /\ UNCHANGED <<variant, line, lines, num_threads, local_maps, threads>>
    /\ UNCHANGED trainer_vars
    /\ UNCHANGED <<list_vars, clean_vars>>

NextTfDf ==
    \/ \E ln \in TfDfLines : TfDfGetLine(ln)
    \/ \E final_newline \in BOOLEAN, hardware_concurrency \in HardwareConcurrency :
          TfDfEndOfFile(final_newline, hardware_concurrency)
    \/ SpawnThread
    \/ \E t \in 1..Len(threads) : ProcessLines(t)
    \/ \E t \in 1..Len(threads) : WorkerReturn(t)
    \/ JoinThread
    \/ CombineMaps

SpecTfDf == InitTfDf /\ [][NextTfDf]_vars

\* the lowercased words of the lines from (0-based) up to to - 1
WordsOfLines(from, to) ==
    UNION {{ToLower(lines[n + 1][k]) : k \in 1..Len(lines[n + 1])} :
              n \in {m \in from..(to - 1) : m < Len(lines)}}

\* the map a sequential pass over the lines from..to-1 gives: for every
\* word its number of occurrences and the number of lines it occurs in
SequentialCount(from, to) ==
    LET range == {m \in from..(to - 1) : m < Len(lines)}
    IN [word \in WordsOfLines(from, to) |->
          [first  |-> SumOver(range,
                        [n \in range |->
                           Cardinality({k \in 1..Len(lines[n + 1]) :
                                           ToLower(lines[n + 1][k]) = word})]),
           second |-> Cardinality({n \in range :
                                     \E k \in 1..Len(lines[n + 1]) :
                                        ToLower(lines[n + 1][k]) = word})]]

\* C22: fork-join isolation in tf_df.  Under every interleaving of the
\* workers each local map holds exactly the counts of the lines its own
\* worker has handled so far (no worker writes another's map), global_map
\* is filled only when every worker is joined, and the combined map gives
\* for every word tf = its occurrences over the non-empty lines and df =
\* the number of those lines that contain it, as a sequential pass does.
ForkJoinIsolation ==
    /\ \A t \in 1..Len(local_maps) :
          local_maps[t] = IF t <= Len(threads)
                          THEN SequentialCount(threads[t].start, threads[t].i)
                          ELSE EmptyMap
    /\ (pc = "combined" \/ global_map # EmptyMap) =>
          /\ Len(threads) = num_threads
          /\ \A t \in 1..Len(threads) : threads[t].state = "joined"
    /\ pc = "combined" => global_map = SequentialCount(0, Len(lines))

\* the maps of two workers that both counted the same word are combined,
\* and the word occurs twice in one line (its tf exceeds its df)
ForkJoinIsolationWitness ==
    /\ pc = "combined"
    /\ \E t, u \in 1..Len(local_maps) :
          /\ t # u
          /\ \E word \in DOMAIN local_maps[t] \cap DOMAIN local_maps[u] :
                global_map[word].first > global_map[word].second

(* ------------------ symbols, reported counts, automaton ---------------- *)
\* the strings of the single code points of the loaded words
InitialSymbols ==
    UNION {{ToBytes(InitialChars(i)[k]) : k \in 1..Len(InitialChars(i))} :
              i \in 1..Len(words)}

\* C31: fresh symbol per merge.  When a pair is selected for merging, the
\* concatenation of its two strings is not yet in the symbol table; every
\* rule's new token differs from both tokens of its pair and from every
\* earlier rule's new token; and the number of symbols is the number of
\* initial single-code-point symbols plus the number of merge rules.
FreshSymbolPerMerge ==
    InLoop =>
      /\ pc = "selected" =>
            LET P == best_pair
            IN TokenStr(id_to_token, P[1]) \o TokenStr(id_to_token, P[2])
                  \notin DOMAIN token_to_id
      /\ \A k \in 1..Len(merges) :
            /\ merges[k].new_token # merges[k].merge_pair[1]
            /\ merges[k].new_token # merges[k].merge_pair[2]
            /\ \A j \in 1..(k - 1) : merges[j].new_token # merges[k].new_token
      /\ Len(id_to_token) = Cardinality(InitialSymbols) + Len(merges)

\* two merges have run on words of two different characters
FreshSymbolPerMergeWitness ==
    /\ InLoop
    /\ Len(merges) >= 2
    /\ Cardinality(InitialSymbols) >= 2

\* C32: reported at least selected.  In the suffix-automaton trainer every
\* rule's reported frequency is at least 2, and right after a merge the
\* frequency just recorded is at least the pair frequency best_freq that
\* selected the pair.
ReportedAtLeastSelected ==
    (variant = "sa" /\ InLoop) =>
       /\ \A k \in 1..Len(merges) : merges[k].frequency >= MinFreq
       /\ (pc = "scan" /\ Len(merges) >= 1) =>
             merges[Len(merges)].frequency >= best_freq

\* C33: no symbol is filtered.  In the trainers with an oracle, every
\* symbol of the table, initial or created by a merge, has a string that is
\* a contiguous substring of some original word, and the final frequency
\* table has exactly one entry per symbol, with a count of at least 1.
NoSymbolFiltered ==
    (variant \in {"rescan", "sa"} /\ InLoop) =>
       /\ \A t \in 0..(Len(id_to_token) - 1) :
             \E i \in 1..Len(words) :
                count_occurrences(words[i].original, TokenStr(id_to_token, t)) > 0
       /\ pc = "done" =>
             /\ DOMAIN final_frequencies = 0..(Len(id_to_token) - 1)
             /\ \A t \in DOMAIN final_frequencies : final_frequencies[t] >= 1

\* C34: automaton state bound.  Every call of extend on a corpus string of
\* length n >= 1 creates the state sz with occ = 1 and at most one more
\* state, a clone with occ = 0, changes the occ of no older state, keeps
\* the state counter within the 2n states the constructor allocated, and
\* accesses no state out of range.
AutomatonStateBound ==
    [][(pc = "extend" /\ cpos < Len(corpus)) =>
          /\ ~oob'
          /\ cpos' = cpos + 1
          /\ sz' \in {sz + 1, sz + 2}
          /\ sz' <= 2 * Len(corpus)
          /\ sz' <= Cardinality(DOMAIN st')
          /\ st'[sz].occ = 1
          /\ sz' = sz + 2 => st'[sz + 1].occ = 0
          /\ \A i \in 0..(sz - 1) : st'[i].occ = st[i].occ]_vars

\* the whole corpus string has been extended and one of the states is a
\* clone (its occ is still 0)
AutomatonStateBoundWitness ==
    /\ pc = "extend"
    /\ Len(corpus) >= 1
    /\ cpos = Len(corpus)
    /\ \E i \in 1..(sz - 1) : st[i].occ = 0

(* ----------------------- partition of the lines ------------------------ *)
\* the numbers of lines and of workers the partition is computed for
PartitionLines == 0..8
PartitionWorkers == 1..5

\* the workers (0-based) whose range [start, end) holds line index k when
\* total_lines lines are split among n workers
WorkersOfLine(total_lines, n, k) ==
    LET chunk_size == ChunkSize(total_lines, n)
    IN {t \in 0..(n - 1) :
           /\ RangeStart(t, chunk_size) <= k
           /\ k < RangeEnd(total_lines, RangeStart(t, chunk_size), chunk_size)}

\* C35: exact-cover partition.  When all workers are started, every line
\* index 0..L-1 lies in the range [start, end) of exactly one worker, so
\* the ranges are pairwise disjoint and cover the lines; and for every
\* number of lines L and of workers T >= 1 the ranges computed from
\* chunk = ceil(L/T) have that property, every range being within 0..L.
ExactCoverPartition ==
    (pc \in {"fork", "combined"} /\ Len(threads) = num_threads) =>
       /\ \A k \in 0..(Len(lines) - 1) :
             Cardinality({t \in 1..Len(threads) :
                             threads[t].start <= k /\ k < threads[t].end}) = 1
       /\ \A t \in 1..Len(threads) :
             threads[t].start < threads[t].end => threads[t].end <= Len(lines)
       /\ \A L \in PartitionLines : \A T \in PartitionWorkers :
             /\ \A k \in 0..(L - 1) : Cardinality(WorkersOfLine(L, T, k)) = 1
             /\ \A k \in L..(L + T) : WorkersOfLine(L, T, k) = {}

\* four workers are started on two lines: two of them have a line each,
\* and the last worker's start is past the end of the lines
ExactCoverPartitionWitness ==
    /\ pc = "fork"
    /\ Len(threads) = num_threads
    /\ num_threads = DefaultThreads
    /\ Len(lines) = 2
    /\ threads[Len(threads)].start > Len(lines)
    /\ \E t \in 1..Len(threads) : threads[t].end = threads[t].start + 1

(* ======================================================================= *)
(*               bpes/bpe2.cpp: the linked-list merge variant              *)
(* ======================================================================= *)
\* the string of the reserved token 0
SpacerString == <<"<", "s", "p", "a", "c", "e", "r", ">">>

\* getTokenId(token): the id, and the two tables after the call
getTokenId(ids, toks, token) ==
    IF token \in DOMAIN ids
    THEN [id |-> ids[token], ids |-> ids, toks |-> toks]
    ELSE [id |-> Len(toks), ids |-> MapPut(ids, token, Len(toks)),
          toks |-> Append(toks, token)]

\* "new Node(t)": token t, no neighbours, not removed (0 is nullptr)
NewNode(t) == [token |-> t, prev |-> 0, next |-> 0, removed |-> FALSE]

\* appendNode(node) for a node just allocated with token t: the list
\* [nodes, head, tail] after the call
appendNode(list, t) ==
    LET node == Len(list.nodes) + 1
        ns   == Append(list.nodes, NewNode(t))
    IN IF list.head = 0
       THEN [nodes |-> ns, head |-> node, tail |-> node]
       ELSE [nodes |-> [ns EXCEPT ![list.tail].next = node, ![node].prev = list.tail],
             head |-> list.head, tail |-> node]

RECURSIVE AppendLineFrom(_, _, _, _, _)
\* "for (char c : line) { getTokenId(string(1, c)); appendNode(new Node(tid)) }"
\* from the k-th character on: the list and the two tables
AppendLineFrom(list, ids, toks, ln, k) ==
    IF k > Len(ln) THEN [list |-> list, ids |-> ids, toks |-> toks]
    ELSE LET g == getTokenId(ids, toks, <<ln[k]>>)
         IN AppendLineFrom(appendNode(list, g.id), g.ids, g.toks, ln, k + 1)

\* addOccurrence(pmap, p, node)
addOccurrence(pmap, p, node) ==
    LET occ == (IF p \in DOMAIN pmap THEN pmap[p].occ ELSE <<>>) \o <<node>>
    IN MapPut(pmap, p, [freq |-> Len(occ), occ |-> occ])

\* the sequence without the elements equal to x (std::remove + erase)
RECURSIVE Without(_, _)
Without(seq, x) ==
    IF seq = <<>> THEN <<>>
    ELSE (IF Head(seq) = x THEN <<>> ELSE <<Head(seq)>>) \o Without(Tail(seq), x)

\* removeOccurrence(pmap, p, node)
removeOccurrence(pmap, p, node) ==
    IF p \in DOMAIN pmap
    THEN LET vec == Without(pmap[p].occ, node)
         IN IF vec = <<>> THEN MapErase(pmap, p)
            ELSE MapPut(pmap, p, [freq |-> Len(vec), occ |-> vec])
    ELSE pmap

RECURSIVE BuildFrom(_, _, _)
\* the loop of buildPairMap from node cur on
BuildFrom(ns, pmap, cur) ==
    IF cur = 0 \/ ns[cur].next = 0 THEN pmap
    ELSE LET nxt == ns[cur].next
         IN IF ns[cur].token # 0 /\ ns[nxt].token # 0
            THEN BuildFrom(ns, addOccurrence(pmap, <<ns[cur].token, ns[nxt].token>>, cur),
                           nxt)
            ELSE BuildFrom(ns, pmap, nxt)

\* buildPairMap(pmap)
buildPairMap(ns, hd) == BuildFrom(ns, EmptyMap, hd)

\* the body of "for (Node* left : occList)" for one occurrence: the nodes
\* and the pair map after it
MergeOccurrence(ns, pmap, left, pair, newTokenId) ==
    IF left = 0 \/ ns[left].removed \/ ns[left].next = 0
    THEN [nodes |-> ns, pairMap |-> pmap]
    ELSE LET right == ns[left].next
         IN IF ns[right].removed
               \/ ns[left].token # pair[1] \/ ns[right].token # pair[2]
            THEN [nodes |-> ns, pairMap |-> pmap]
            ELSE LET after == ns[right].next
                     n1 == [ns EXCEPT ![left].token = newTokenId,
                                      ![left].next = after,
                                      ![right].removed = TRUE]
                     n2 == IF after # 0 THEN [n1 EXCEPT ![after].prev = left] ELSE n1
                     prv == n2[left].prev
                     p1 == IF prv # 0 /\ ~n2[prv].removed /\ n2[prv].token # 0
                              /\ n2[left].token # 0
                           THEN addOccurrence(
                                   removeOccurrence(pmap, <<n2[prv].token, pair[1]>>, prv),
                                   <<n2[prv].token, newTokenId>>, prv)
                           ELSE pmap
                     nxt == n2[left].next
                     p2 == IF nxt # 0 /\ ~n2[nxt].removed /\ n2[left].token # 0
                              /\ n2[nxt].token # 0
                           THEN addOccurrence(
                                   removeOccurrence(p1, <<pair[2], n2[nxt].token>>, right),
                                   <<newTokenId, n2[nxt].token>>, left)
                           ELSE p1
                 IN [nodes |-> n2, pairMap |-> p2]

RECURSIVE MergeOccurrences(_, _, _, _, _, _)
\* the loop over occList from its k-th element on
MergeOccurrences(ns, pmap, occList, k, pair, newTokenId) ==
    IF k > Len(occList) THEN [nodes |-> ns, pairMap |-> pmap]
    ELSE LET r == MergeOccurrence(ns, pmap, occList[k], pair, newTokenId)
         IN MergeOccurrences(r.nodes, r.pairMap, occList, k + 1, pair, newTokenId)

\* the lines of the input file of bpe2.cpp: the empty line and words
ListLines == {<<>>} \cup SeqsUpTo(Alphabet, MaxChars)

\* the number of characters read so far (nodes that are not spacers)
ListChars == Cardinality({n \in DOMAIN nodes : nodes[n].token # 0})

\* bpe2.cpp before its reading loop: the spacer token is reserved and
\* infile is constructed, open or not (the program does not test it)
InitList ==
    /\ variant = "list"
    /\ pc = "getline"
    /\ words = <<>>
    /\ id_to_token = <<SpacerString>>
    /\ token_to_id = MapPut(EmptyMap, SpacerString, 0)
    /\ pair_to_word_indices = EmptyMap
    /\ merges = <<>>
    /\ best_pair = <<-1, -1>>
    /\ best_freq = 0
    /\ corpus = <<>>
    /\ st = EmptyMap
    /\ sz = 0
    /\ last = 0
    /\ cpos = 0
    /\ oob = FALSE
    /\ final_frequencies = EmptyMap
    /\ line = <<>>
    /\ exit_status = -1
    /\ argc = 2
    /\ is_open \in {[infile |-> b, tokens_file |-> FALSE, merges_file |-> FALSE] :
                     b \in BOOLEAN}
    /\ lines = <<>>
    /\ num_threads = 0
    /\ local_maps = <<>>
    /\ threads = <<>>
    /\ global_map = EmptyMap
    /\ nodes = <<>>
    /\ head = 0
    /\ tail = 0
    /\ pairMap = EmptyMap
    /\ bestPair = <<-1, -1>>
    /\ bestFreq = 0
    /\ thread_outputs = <<>>
    /\ outfile = <<>>
    /\ mode = ""
    /\ locale = "C"

\* what bpe2.cpp leaves alone
list_frame == <<words, pair_to_word_indices, merges, best_pair, best_freq, corpus,
                st, sz, last, cpos, oob, final_frequencies, argc>>

\* one round of "while (getline(infile, line))": an empty line is skipped,
\* another gets a node per character and a spacer node behind them
ListGetLine(ln) ==
    /\ pc = "getline"
    /\ is_open.infile
    /\ line' = ln
    /\ IF ln = <<>>
       THEN UNCHANGED <<nodes, head, tail, token_to_id, id_to_token>>
       ELSE LET r == AppendLineFrom([nodes |-> nodes, head |-> head, tail |-> tail],
                                    token_to_id, id_to_token, ln, 1)
                l == appendNode(r.list, 0)
            IN /\ nodes' = l.nodes
               /\ head' = l.head
               /\ tail' = l.tail
               /\ token_to_id' = r.ids
               /\ id_to_token' = r.toks
    /\ UNCHANGED <<variant, pc, pairMap, bestPair, bestFreq, exit_status, is_open>>
    /\ UNCHANGED <<list_frame, tfdf_vars, clean_vars>>

\* the end of the file, or the first getline on a file that did not open:
\* infile is closed, the last spacer is unlinked and deleted, and the pair
\* map is built
ListEndOfFile(final_newline) ==
    /\ pc = "getline"
    /\ line' = LineAtEof(final_newline, line, <<>>)
    /\ is_open' = [is_open EXCEPT !.infile = FALSE]
    /\ LET drop == tail # 0 /\ nodes[tail].token = 0
           tl   == IF drop THEN nodes[tail].prev ELSE tail
           hd   == IF drop /\ tl = 0 THEN 0 ELSE head
           n1   == IF drop /\ tl # 0 THEN [nodes EXCEPT ![tl].next = 0] ELSE nodes
           ns   == IF drop THEN SubSeq(n1, 1, Len(n1) - 1) ELSE n1
       IN /\ nodes' = ns
          /\ head' = hd
          /\ tail' = tl
          /\ pairMap' = buildPairMap(ns, hd)
    /\ pc' = "scan"
    /\ UNCHANGED <<variant, token_to_id, id_to_token, bestPair, bestFreq, exit_status>>
    /\ UNCHANGED <<list_frame, tfdf_vars, clean_vars>>

\* the largest freq of pairMap (0 when it is empty)
ListBestFreq(pmap) ==
    IF DOMAIN pmap = {} THEN 0
    ELSE CHOOSE f \in {pmap[p].freq : p \in DOMAIN pmap} :
            \A p \in DOMAIN pmap : pmap[p].freq <= f

RECURSIVE ReachableFrom(_, _)
\* the nodes the loop "cur = head; while (cur) { nxt = cur->next; delete
\* cur; cur = nxt; }" visits from node cur on
ReachableFrom(ns, cur) ==
    IF cur = 0 THEN {} ELSE {cur} \cup ReachableFrom(ns, ns[cur].next)

\* the allocated nodes after that loop: those of the list are deleted, the
\* nodes earlier merges unlinked stay allocated
DeleteList(ns, hd) ==
    [n \in (DOMAIN ns) \ ReachableFrom(ns, hd) |-> ns[n]]

\* the first half of a loop round: the search for the best pair (the first
\* key of maximal freq in the map's iteration order, if that freq is
\* positive) and the test "if (bestFreq < 2) break", after which the
\* program prints the list, deletes its nodes (head and tail keep their
\* values) and returns 0
ListSelectBest ==
    /\ pc = "scan"
    /\ bestFreq' = ListBestFreq(pairMap)
    /\ IF bestFreq' > 0
       THEN bestPair' \in {p \in DOMAIN pairMap : pairMap[p].freq = bestFreq'}
       ELSE bestPair' = <<-1, -1>>
    /\ IF bestFreq' < MinFreq
       THEN /\ pc' = "done"
            /\ exit_status' = EXIT_SUCCESS
            /\ nodes' = DeleteList(nodes, head)
       ELSE pc' = "selected" /\ UNCHANGED <<exit_status, nodes>>
    /\ UNCHANGED <<variant, line, head, tail, pairMap, token_to_id, id_to_token,
                   is_open>>
    /\ UNCHANGED <<list_frame, tfdf_vars, clean_vars>>

\* the second half: the new token, the merge at every occurrence of the
\* copied list, the erase of the merged pair
ListMerge ==
    /\ pc = "selected"
    /\ LET newTokenStr == TokenStr(id_to_token, bestPair[1])
                            \o TokenStr(id_to_token, bestPair[2])
           g       == getTokenId(token_to_id, id_to_token, newTokenStr)
           occList == pairMap[bestPair].occ
           r       == MergeOccurrences(nodes, pairMap, occList, 1, bestPair, g.id)
       IN /\ token_to_id' = g.ids
          /\ id_to_token' = g.toks
          /\ nodes' = r.nodes
          /\ pairMap' = MapErase(r.pairMap, bestPair)
    /\ pc' = "scan"
    /\ UNCHANGED <<variant, line, head, tail, bestPair, bestFreq, exit_status, is_open>>
    /\ UNCHANGED <<list_frame, tfdf_vars, clean_vars>>

\* the runs of bpe2.cpp on files of up to MaxChars characters
NextList ==
    \/ \E ln \in ListLines :
          /\ Len(ln) <= MaxChars - ListChars
          /\ ListGetLine(ln)
    \/ \E final_newline \in BOOLEAN : ListEndOfFile(final_newline)
    \/ ListSelectBest
    \/ ListMerge

SpecList == InitList /\ [][NextList]_vars

\* a file whose lines hold the characters of the reserved string
ListScenarioFile ==
    << SpacerString \o <<"x">>, SpacerString \o <<"y">>,
       SpacerString \o <<"x">>, SpacerString \o <<"y">> >>

\* the lines read so far (each left one spacer node)
ListLinesRead == Cardinality({n \in DOMAIN nodes : nodes[n].token = 0})

\* the runs of bpe2.cpp on the prefixes of ListScenarioFile
NextListScenario ==
    \/ /\ ListLinesRead < Len(ListScenarioFile)
       /\ ListGetLine(ListScenarioFile[ListLinesRead + 1])
    \/ \E final_newline \in BOOLEAN : ListEndOfFile(final_newline)
    \/ ListSelectBest
    \/ ListMerge

SpecListScenario == InitList /\ [][NextListScenario]_vars

\* the elements of a sequence of nodes
NodeSet(seq) == {seq[i] : i \in 1..Len(seq)}

RECURSIVE LiveFrom(_, _)
\* the nodes of the list from node cur on, following next
LiveFrom(ns, cur) ==
    IF cur = 0 THEN <<>> ELSE <<cur>> \o LiveFrom(ns, ns[cur].next)

\* the nodes of the live list, in list order
LiveList == LiveFrom(nodes, head)

\* the nodes p starts at: live nodes followed by a node, both without the
\* spacer token, that carry the two tokens of p
PairPositions(p) ==
    {n \in NodeSet(LiveList) :
        /\ ~nodes[n].removed
        /\ nodes[n].next # 0
        /\ nodes[n].token # 0 /\ nodes[nodes[n].next].token # 0
        /\ <<nodes[n].token, nodes[nodes[n].next].token>> = p}

\* C36: once the pair map is built, and after every merge iteration, each
\* key's freq is the size of its occurrence list, which is the number of
\* positions of the live list where two adjacent non-spacer nodes carry the
\* key's tokens; the stored nodes are exactly those positions (live, not
\* removed, each once), and no key has an empty occurrence list
PairMapConsistent ==
    (variant = "list" /\ pc \in {"scan", "selected"}) =>
        \A p \in DOMAIN pairMap :
            /\ pairMap[p].freq = Len(pairMap[p].occ)
            /\ pairMap[p].occ # <<>>
            /\ Len(pairMap[p].occ) = Cardinality(PairPositions(p))
            /\ NodeSet(pairMap[p].occ) = PairPositions(p)

\* the live nodes that carry the spacer token, in list order
SpacerNodes == SelectSeq(LiveList, LAMBDA n : nodes[n].token = 0)

\* C37: no key of the pair map and no selected pair contains token 0, and a
\* merge iteration leaves the spacer nodes of the list as they are: none
\* removed, none relabelled, none added, same order
SpacerIsolation ==
    [][/\ \A p \in DOMAIN pairMap' : p[1] # 0 /\ p[2] # 0
       /\ pc = "selected" =>
            /\ bestPair[1] # 0 /\ bestPair[2] # 0
            /\ LET spacers == SelectSeq(LiveFrom(nodes', head'),
                                        LAMBDA n : nodes'[n].token = 0)
               IN spacers = SpacerNodes
            /\ \A n \in NodeSet(SpacerNodes) : ~nodes'[n].removed]_vars

(* ======================================================================= *)
(*              clean_text.cpp: the parallel filter of lines               *)
(* ======================================================================= *)
\* the wide characters A-Z, a-z of the model
LatinLetters == Alphabet \cup ScenarioAlphabet

\* isLatinChar(ch): the ASCII letters and the Latin ranges from U+00C0 on
isLatinChar(ch) == ch \in LatinLetters \cup {WideE9}

\* isCyrillicChar(ch): U+0400-U+052F, which holds no character of the model
isCyrillicChar(ch) == FALSE

\* the wide characters from_bytes returns
WideChars == Ascii \cup {WideE9}

\* isScriptWord(word, isScriptChar): the word converts and every character
\* satisfies the predicate, given as the set of the characters it holds of
isScriptWord(word, isScriptChar) ==
    LET r == FromBytes(word)
    IN IF ~r.ok THEN FALSE
       ELSE \A k \in 1..Len(r.wide) : r.wide[k] \in isScriptChar

isLatinWord(word) == isScriptWord(word, {ch \in WideChars : isLatinChar(ch)})

isCyrillicWord(word) == isScriptWord(word, {ch \in WideChars : isCyrillicChar(ch)})

\* the wordFilter chosen for argv[2]
wordFilter(m, word) ==
    IF m = "latin" THEN isLatinWord(word) ELSE isCyrillicWord(word)

\* std::iswalnum(wc) in the global locale loc: the ASCII letters and
\* digits in every locale; U+00E9 is alphanumeric in a UTF-8 locale and is
\* not in the "C" locale
iswalnum(wc, loc) ==
    \/ wc \in LatinLetters \cup {"1"}
    \/ wc = WideE9 /\ loc = "UTF-8"

RECURSIVE ToBytesFrom(_, _)
\* converter.to_bytes(current) from the k-th wide character on
ToBytesFrom(current, k) ==
    IF k > Len(current) THEN <<>>
    ELSE ToBytes(current[k]) \o ToBytesFrom(current, k + 1)

\* result after "if (!current.empty()) { if (wordFilter(word)) push_back }"
PushWord(result, current, m) ==
    IF current = <<>> THEN result
    ELSE LET word == ToBytesFrom(current, 1)
         IN IF wordFilter(m, word) THEN Append(result, word) ELSE result

RECURSIVE FilterFrom(_, _, _, _, _, _)
\* the loop "for (wchar_t wc : wtext)" of filterWords from position k on,
\* and the flush of the last word behind it
FilterFrom(wtext, k, current, result, m, loc) ==
    IF k > Len(wtext) THEN PushWord(result, current, m)
    ELSE IF iswalnum(wtext[k], loc) \/ wtext[k] = "_"
         THEN FilterFrom(wtext, k + 1, Append(current, wtext[k]), result, m, loc)
         ELSE FilterFrom(wtext, k + 1, <<>>, PushWord(result, current, m), m, loc)

\* filterWords(text, wordFilter) in the global locale loc: no word at all
\* when the text does not convert
filterWords(text, m, loc) ==
    LET r == FromBytes(text)
    IN IF ~r.ok THEN <<>> ELSE FilterFrom(r.wide, 1, <<>>, <<>>, m, loc)

\* the fewest words a line is kept with ("if (filtered_words.size() < 10)")
MinWords == 10

\* the test on the number of words a line is skipped by
TooFewWords(filtered_words) == Len(filtered_words) < MinWords

RECURSIVE JoinFrom(_, _)
\* the ostringstream loop from the j-th word on (1-based)
JoinFrom(filtered_words, j) ==
    IF j > Len(filtered_words) THEN <<>>
    ELSE (IF j > 1 THEN <<" ">> ELSE <<>>) \o filtered_words[j]
         \o JoinFrom(filtered_words, j + 1)

\* oss.str(): the words separated by single spaces
JoinWords(filtered_words) == JoinFrom(filtered_words, 1)

\* the vector worker thread_index appends to
OutputSlot(thread_index) == thread_index

RECURSIVE WriteBackFrom(_, _)
\* the write loop from the last worker down to worker 0
WriteBackFrom(outs, t) ==
    IF t < 0 THEN <<>> ELSE outs[t + 1] \o WriteBackFrom(outs, t - 1)

\* the write loop over the workers in decreasing order
WriteOutputs_Backward(outs) == WriteBackFrom(outs, Len(outs) - 1)

RECURSIVE WriteFrom(_, _)
\* the lines "for (t = 0; t < num_threads; t++) for (filtered_line :
\* thread_outputs[t]) outfile << filtered_line" writes from worker t on
WriteFrom(outs, t) ==
    IF t >= Len(outs) THEN <<>> ELSE outs[t + 1] \o WriteFrom(outs, t + 1)

\* the write loop over the workers
WriteOutputs(outs) == WriteFrom(outs, 0)

RECURSIVE Repeated(_, _, _)
\* n copies of the word w with sep between them
Repeated(w, sep, n) ==
    IF n <= 1 THEN w ELSE w \o sep \o Repeated(w, sep, n - 1)

\* the lines of the input file of clean_text.cpp: the empty line; ten Latin
\* words among separators of several characters, a word with a digit and a
\* word of "_"; ten words and a byte sequence that does not convert; ten
\* words and a cut-off last sequence; nine words and U+00E9 alone (ten
\* words where U+00E9 is alphanumeric, nine where it is not); eight words
\* and a word with U+00E9 inside (nine words, or ten)
CleanLines ==
    { <<>>,
      <<" ">> \o Repeated(<<"b">>, <<"#", " ">>, MinWords)
              \o <<" ", "a", "1", " ", "_">>,
      Repeated(<<"a", "b">>, <<" ">>, MinWords) \o <<LeadByte, "b">>,
      Repeated(<<"b", "a">>, <<" ">>, MinWords) \o <<" ", LeadByte>>,
      Repeated(<<"a">>, <<" ">>, MinWords - 1) \o <<" ", LeadByte, ContByte>>,
      Repeated(<<"b">>, <<" ">>, MinWords - 2)
          \o <<" ", "a", LeadByte, ContByte, "b">> }

\* argv[2]
Modes == {"latin", "cyrillic", "greek"}

\* clean_text.cpp at the entry of main
InitClean ==
    /\ variant = "clean"
    /\ pc = "start"
    /\ words = <<>>
    /\ id_to_token = <<>>
    /\ token_to_id = EmptyMap
    /\ pair_to_word_indices = EmptyMap
    /\ merges = <<>>
    /\ best_pair = <<-1, -1>>
    /\ best_freq = 0
    /\ corpus = <<>>
    /\ st = EmptyMap
    /\ sz = 0
    /\ last = 0
    /\ cpos = 0
    /\ oob = FALSE
    /\ final_frequencies = EmptyMap
    /\ line = <<>>
    /\ exit_status = -1
    /\ argc \in {2, 3}
    /\ is_open = [infile |-> FALSE, outfile |-> FALSE]
    /\ lines = <<>>
    /\ num_threads = 0
    /\ local_maps = <<>>
    /\ threads = <<>>
    /\ global_map = EmptyMap
    /\ nodes = <<>>
    /\ head = 0
    /\ tail = 0
    /\ pairMap = EmptyMap
    /\ bestPair = <<-1, -1>>
    /\ bestFreq = 0
    /\ thread_outputs = <<>>
    /\ outfile = <<>>
    /\ mode \in Modes
    /\ locale = "C"

\* what clean_text.cpp leaves alone
clean_frame == <<words, id_to_token, token_to_id, pair_to_word_indices, merges,
                 best_pair, best_freq, corpus, st, sz, last, cpos, oob,
                 final_frequencies, argc, local_maps, global_map, mode>>

\* the head of main(): the global locale is set to the environment's
\* env_locale (std::locale("") throws std::runtime_error where that one is
\* not valid, and the process is aborted), then the argument count, the
\* mode and the input file are tested.  With the file open, its size is
\* taken with tellg and lines.reserve(file_size / 80) is called: where
\* tellg fails (argv[1] is a directory, which opens) the size is -1, the
\* request cannot be met (reserve_ok false), reserve throws, nothing
\* catches it and the process is aborted with the input file open
CleanStart(env_locale, infile_ok, reserve_ok) ==
    /\ pc = "start"
    /\ IF env_locale = "none"
       THEN pc' = "aborted" /\ exit_status' = Aborted /\ UNCHANGED <<is_open, locale>>
       ELSE /\ locale' = env_locale
            /\ IF argc < 3 \/ mode \notin {"latin", "cyrillic"}
               THEN pc' = "done" /\ exit_status' = EXIT_FAILURE /\ UNCHANGED is_open
               ELSE /\ is_open' = [is_open EXCEPT !.infile = infile_ok]
                    /\ IF ~infile_ok
                       THEN pc' = "done" /\ exit_status' = EXIT_FAILURE
                       ELSE IF ~reserve_ok
                       THEN pc' = "aborted" /\ exit_status' = Aborted
                       ELSE pc' = "getline" /\ UNCHANGED exit_status
    /\ UNCHANGED <<variant, line, lines, num_threads, threads, thread_outputs, outfile>>
    /\ UNCHANGED <<clean_frame, list_vars>>

\* one round of "while (std::getline(infile, line)) lines.push_back(line)"
CleanGetLine(ln) ==
    /\ pc = "getline"
    /\ Len(lines) < MaxLines
    /\ line' = ln
    /\ lines' = Append(lines, ln)
    /\ UNCHANGED <<variant, pc, exit_status, num_threads, threads, thread_outputs,
                   outfile>>
    /\ UNCHANGED <<clean_frame, list_vars, is_open, locale>>

\* the end of the file: num_threads is taken from the hardware and the
\* output vectors are created
CleanEndOfFile(final_newline, hardware_concurrency) ==
    /\ pc = "getline"
    /\ line' = LineAtEof(final_newline, line, <<>>)
    /\ is_open' = [is_open EXCEPT !.infile = FALSE]
    /\ num_threads' = IF hardware_concurrency = 0 THEN DefaultThreads
                      ELSE hardware_concurrency
    /\ thread_outputs' = [t \in 1..num_threads' |-> <<>>]
    /\ pc' = "fork"
    /\ UNCHANGED <<variant, exit_status, lines, threads, outfile>>
    /\ UNCHANGED <<clean_frame, list_vars, locale>>

\* one round of the loop that starts the workers
CleanSpawnThread ==
    /\ pc = "fork"
    /\ Len(threads) < num_threads
    /\ LET t          == Len(threads)
           total_lines == Len(lines)
           chunk_size == ChunkSize(total_lines, num_threads)
           start      == RangeStart(t, chunk_size)
           end        == RangeEnd(total_lines, start, chunk_size)
       IN threads' = Append(threads, [start |-> start, end |-> end, i |-> start,
                                      thread_index |-> t, state |-> "running"])
    /\ UNCHANGED <<variant, pc, exit_status, line, lines, num_threads, thread_outputs,
                   outfile>>
    /\ UNCHANGED <<clean_frame, list_vars, is_open, locale>>

\* one round of the worker's loop: the line is filtered, skipped when too
\* few words are left, else joined and appended to the worker's vector
CleanWorker(t) ==
    /\ pc = "fork"
    /\ t \in 1..Len(threads)
    /\ threads[t].state = "running"
    /\ threads[t].i < threads[t].end
    /\ LET filtered_words == filterWords(lines[threads[t].i + 1], mode, locale)
       IN IF TooFewWords(filtered_words)
          THEN UNCHANGED thread_outputs
          ELSE thread_outputs' =
                  [thread_outputs EXCEPT ![OutputSlot(threads[t].thread_index) + 1] =
                      Append(@, JoinWords(filtered_words))]
    /\ threads' = [threads EXCEPT ![t].i = @ + 1]
    /\ UNCHANGED <<variant, pc, exit_status, line, lines, num_threads, outfile>>
    /\ UNCHANGED <<clean_frame, list_vars, is_open, locale>>

\* worker t leaves the lambda: its loop condition i < end is false
CleanWorkerReturn(t) ==
    /\ pc = "fork"
    /\ t \in 1..Len(threads)
    /\ threads[t].state = "running"
    /\ ~(threads[t].i < threads[t].end)
    /\ threads' = [threads EXCEPT ![t].state = "finished"]
    /\ UNCHANGED <<variant, pc, exit_status, line, lines, num_threads, thread_outputs,
                   outfile>>
    /\ UNCHANGED <<clean_frame, list_vars, is_open, locale>>

\* one round of "for (auto &t : threads) t.join()"
CleanJoinThread ==
    /\ pc = "fork"
    /\ Len(threads) = num_threads
    /\ \E t \in 1..Len(threads) :
          /\ \A u \in 1..(t - 1) : threads[u].state = "joined"
          /\ threads[t].state = "finished"
          /\ threads' = [threads EXCEPT ![t].state = "joined"]
    /\ UNCHANGED <<variant, pc, exit_status, line, lines, num_threads, thread_outputs,
                   outfile>>
    /\ UNCHANGED <<clean_frame, list_vars, is_open, locale>>

\* after the last join: the output file is opened, the vectors are
\* written, worker by worker, and the file is closed
CleanWrite(outfile_ok) ==
    /\ pc = "fork"
    /\ Len(threads) = num_threads
    /\ \A t \in 1..Len(threads) : threads[t].state = "joined"
    /\ IF ~outfile_ok
       THEN exit_status' = EXIT_FAILURE /\ UNCHANGED outfile
       ELSE exit_status' = EXIT_SUCCESS /\ outfile' = WriteOutputs(thread_outputs)
    /\ pc' = "done"
    /\ UNCHANGED is_open
    /\ UNCHANGED <<variant, line, lines, num_threads, threads, thread_outputs>>
    /\ UNCHANGED <<clean_frame, list_vars, locale>>

NextClean ==
    \/ \E env_locale \in EnvLocales, infile_ok, reserve_ok \in BOOLEAN :
          CleanStart(env_locale, infile_ok, reserve_ok)
    \/ \E ln \in CleanLines : CleanGetLine(ln)
    \/ \E final_newline \in BOOLEAN, hardware_concurrency \in HardwareConcurrency :
          CleanEndOfFile(final_newline, hardware_concurrency)
    \/ CleanSpawnThread
    \/ \E t \in 1..Len(threads) : CleanWorker(t)
    \/ \E t \in 1..Len(threads) : CleanWorkerReturn(t)
    \/ CleanJoinThread
    \/ \E outfile_ok \in BOOLEAN : CleanWrite(outfile_ok)

SpecClean == InitClean /\ [][NextClean]_vars

RECURSIVE FilteredFrom(_, _, _, _)
\* the input lines from the k-th on that have at least ten words passing
\* the filter of mode m in the locale loc, each as its passing words
\* joined by single spaces, in input order
FilteredFrom(fl, k, m, loc) ==
    IF k > Len(fl) THEN <<>>
    ELSE (IF Len(filterWords(fl[k], m, loc)) >= 10
          THEN <<JoinWords(filterWords(fl[k], m, loc))>> ELSE <<>>)
         \o FilteredFrom(fl, k + 1, m, loc)

\* C38: whatever the interleaving of the workers, a run of clean_text that
\* writes its output file writes exactly the input lines with at least 10
\* words passing the script filter, each as its passing words joined by
\* single spaces, in the order of the input
OrderPreservingFilter ==
    (variant = "clean" /\ pc = "done" /\ exit_status = EXIT_SUCCESS) =>
        outfile = FilteredFrom(lines, 1, mode, locale)

\* two different lines are kept, by two different workers, and written;
\* the first of them holds U+00E9, which the "C" locale splits words at
OrderPreservingFilterWitness ==
    /\ variant = "clean" /\ pc = "done" /\ exit_status = EXIT_SUCCESS
    /\ num_threads > 1
    /\ locale = "C"
    /\ Len(lines) = 2
    /\ \E k \in 1..Len(lines[1]) : lines[1][k] = ContByte
    /\ Len(outfile) = 2
    /\ outfile[1] # outfile[2]
    /\ outfile[1] # lines[1]

====
